---- MODULE Spec2Model ----
(***************************************************************************)
(* Verification model of the GitHub repository harvester                   *)
(* (app/token_manager.py, app/utils.py, app/phases/phase1.py,               *)
(* app/phases/phase2.py, app/models/database.py, app/models/repository.py) *)
(* and of its standalone collectors (scrapv3.py, scrapv2.1.py).            *)
(*                                                                         *)
(* The module holds several state machines over one set of variables:      *)
(*   SpecTM      the credential pool, TokenManager.get_best_token          *)
(*   SpecReq     the retrying client, utils.make_github_request            *)
(*   SpecReqPool the same client called with a credential of the pool      *)
(*   SpecP1      the Phase-1 discovery workers, Phase1Collector.search_*   *)
(*   SpecDB      the repositories table under Phase-1 upserts and Phase 2  *)
(*   SpecCol     the Phase-1 scheduler, collect_all_basic_repos            *)
(*   SpecWorkers two discovery workers sharing collected_repos             *)
(*   SpecE2E     one discovery task from its first page to the table       *)
(*   SpecLang    the language statistics, get_repository_languages         *)
(*   SpecEnrich  the Phase-2 worker step by step, enrich_repository_worker *)
(*   SpecPool    the thread pools of the two schedulers                    *)
(*   SpecRun     two discovery workers together with the Phase-1 scheduler *)
(*   SpecRediscover  Phase-1 upserts of rows Phase 2 has enriched          *)
(*   SpecSAReq   the standalone client, _make_github_request               *)
(*   SpecSA      the standalone collector's cycles, GitHubCollector        *)
(* Each specification leaves the variables it does not use unchanged.      *)
(***************************************************************************)
EXTENDS Integers, Sequences, FiniteSets, TLC

VARIABLES
    \* ---- TokenManager (app/token_manager.py)
    ntokens,        \* len(self.tokens)
    token_stats,    \* self.token_stats: index -> [remaining, reset_time, active]
    lock,           \* self.lock: the thread holding it, or NoThread
    now,            \* the wall clock (datetime.now()), in seconds
    tpc,            \* per thread: its position in get_best_token
    idx,            \* per thread: loop index i of _update_token_stats
    depth,          \* per thread: nesting of get_best_token calls (recursion at line 59)
    wake,           \* per thread: the time at which its time.sleep returns
    earliest,       \* per thread: earliest_reset computed by _wait_for_reset
    ret,            \* per thread: index of the token returned (None: no token)
    \* ---- make_github_request (app/utils.py)
    max_retries,    \* the max_retries argument
    attempt,        \* the loop variable of `for attempt in range(max_retries)`
    rpc,            \* position: "loop" or "done"
    responses,      \* the outcomes of the HTTP attempts made so far, in order
    waits,          \* the time.sleep calls made so far: [attempt, seconds, kind]
    result,         \* the value returned: "response", "none" or "pending"
    \* ---- Phase1Collector (app/phases/phase1.py)
    collected_repos, \* self.collected_repos: the github ids seen in this run
    task,           \* per worker: the search_params of its task
    fi,             \* per worker: index of the file type / topic being searched
    page,           \* per worker: the page number of the next request
    left,           \* per worker: items of the current page not yet looked at
    repositories,   \* per worker: the list the search function returns
    wpc,            \* per worker: its position in the search function
    offered,        \* per worker: the ids, collected by no task before, of the
                    \* items of the pages it received (an observation, not
                    \* program state; kept while collect_all_basic_repos runs)
    requested,      \* per worker: the page numbers it has requested for the
                    \* facet it is searching, in order (an observation)
    refused,        \* the ids for which add_repository_safe returned False to
                    \* a worker that had not collected them itself (an
                    \* observation, kept likewise)
    \* ---- the repositories table and Phase2Enricher (app/models/database.py,
    \*      app/phases/phase2.py)
    rows,           \* the table: github_id -> stored row
    candidates,     \* the list get_repositories_for_enrichment returned
    pending,        \* the candidates whose enrichment worker has not finished
    cutoff_date,    \* cutoff_date of the last selection (phase2.py:63)
    skip_forks,     \* PHASE2_SKIP_FORKS, read from the environment at start
    p2pc,           \* position of enrich_repositories: "idle" or "running"
    completed_count, \* the local completed_count of enrich_repositories
    failed_count,   \* the local failed_count of enrich_repositories
    enriched_count, \* self.enriched_count, the value enrich_repositories returned
    \* ---- collect_all_basic_repos (app/phases/phase1.py)
    handled,        \* the tasks whose future the as_completed loop has processed
    all_repositories, \* the in-memory batch
    completed_tasks,  \* the local counter completed_tasks
    total_collected,  \* self.total_collected
    upserted,       \* github_id -> the number of bulk_insert_repositories calls
                    \* the record was passed to (an observation)
    cpc,            \* position: "off", "collecting", "returned", or
                    \* "interrupted" and "exited" after a KeyboardInterrupt
    \* ---- enrich_repository_worker and its fetches (app/phases/phase2.py)
    epc,            \* position of enrich_repository_worker: "off", the fetch
                    \* it is about to make, "update", "returned"
    target,         \* github_id of the repository the worker enriches
    enrichment_data, \* the local dict enrichment_data (without github_id)
    activity_data,  \* the local dict activity_data of get_repository_activity
    fetched,        \* fetch -> what its request returned (an observation)
    update_fields,  \* the SET list of the UPDATE issued: column -> value
    updates_issued, \* the number of db.execute_update calls of this worker
    worker_result,  \* the worker's return value: <<>> until it returns
    languages,      \* the body of the languages response: <<name, bytes>> pairs
    language_data,  \* what get_repository_languages returned
    lpc,            \* position of get_repository_languages: "off", "called", "returned"
    \* ---- the ThreadPoolExecutor of collect_all_basic_repos and of
    \*      enrich_repositories (phase1.py:307-312, phase2.py:393-398)
    search_tasks,   \* the list of task descriptions the scheduler created
    max_workers,    \* max_workers of the executor
    work_queue,     \* the submitted tasks no thread has taken yet (indexes)
    pool_threads,   \* the number of threads the executor has started
    executing,      \* the tasks a thread is executing now
    runs,           \* task -> how many times a thread has started it (an observation)
    nsubmitted,     \* how many tasks executor.submit has been called for
    ppc,            \* position of the scheduler: "off", "submitting", "waiting", "done"
    \* ---- GitHubCollector, the standalone collector (scrapv3.py, scrapv2.1.py)
    spc,            \* position of _make_github_request: "off", "get", "sleep",
                    \* "returned", "raised"
    call_depth,     \* the number of _make_github_request frames below the current one
    api_calls,      \* self.stats['api_calls']
    clock,          \* time.time(), in seconds
    sleep_for,      \* wait_time of the time.sleep the call is in
    reply,          \* what the outermost call returned: "pending", "json", "none",
                    \* or "RecursionError" when it raised
    gpc,            \* position of the collector: "off", "init", "files", "repos",
                    \* "save"
    file_i,         \* how many of TARGET_FILES this cycle has searched
    stored_ids,     \* the ids of the rows of the sqlite table repositories
    processed_repos, \* self.processed_repos
    found,          \* the rest of the list search_repositories_by_file returned
    saving,         \* the id of the record process_repository returned
    at_startup,     \* the ids stored when the process started (an observation)
    times_processed, \* id -> how many times process_repository returned its
                    \* record in this process (an observation)
    times_saved,    \* id -> how many times its row was written (an observation)
    failures,       \* the ids whose processing has failed (an observation)
    loaded          \* whether _load_processed_repos read the table (an observation)

tmVars  == <<ntokens, token_stats, lock, now, tpc, idx, depth, wake, earliest, ret>>
reqVars == <<max_retries, attempt, rpc, responses, waits, result>>
p1Vars  == <<collected_repos, task, fi, page, left, repositories, wpc, offered, refused,
            requested>>
dbVars  == <<rows, candidates, pending, cutoff_date, skip_forks, p2pc,
            completed_count, failed_count, enriched_count>>
colVars == <<handled, all_repositories, completed_tasks, total_collected, upserted, cpc>>
enVars  == <<epc, target, enrichment_data, activity_data, fetched, update_fields,
            updates_issued, worker_result, languages, language_data, lpc>>
poolVars == <<search_tasks, max_workers, work_queue, pool_threads, executing, runs,
              nsubmitted, ppc>>
saVars  == <<spc, call_depth, api_calls, clock, sleep_for, reply, gpc, file_i,
            stored_ids, processed_repos, found, saving, at_startup, times_processed,
            times_saved, failures, loaded>>
vars    == <<tmVars, reqVars, p1Vars, dbVars, colVars, enVars, poolVars, saVars>>

\* ------------------------------------------------------------------ bounds
MaxTokens    == 2   \* at most this many configured tokens
MaxRemaining == 1   \* the rate-limit endpoint reports remaining in 0..MaxRemaining
MaxReset     == 1   \* ... and reset timestamps in 0..MaxReset
MaxTime      == 2   \* the clock ticks up to here; a sleep carries it further

Threads  == {"w1", "w2"}
NoThread == "none"
None     == -1

\* ------------------------------------------------- program constants
InitialRemaining == 5000   \* token_manager.py:29
ResetBuffer      == 5      \* token_manager.py:110, "Add 5 seconds buffer"

Min(S) == CHOOSE x \in S : \A y \in S : x <= y

NoRepeat(seq) == \A i, j \in 1..Len(seq) : i # j => seq[i] # seq[j]

SeqRange(seq) == {seq[i] : i \in 1..Len(seq)}

\* ======================================================================
\*  TokenManager
\* ======================================================================

\* __init__, lines 20-33: every token starts active with 5000 remaining and
\* reset_time = datetime.now() at construction (time 0 of the model).
InitStats(n) ==
    [i \in 0..(n - 1) |-> [remaining |-> InitialRemaining, reset_time |-> 0, active |-> TRUE]]

\* What one GET /rate_limit can produce (lines 81-99): a 200 carrying
\* core.remaining and core.reset, another status, or an exception.
RateLimitOutcomes ==
    [kind : {"ok"}, remaining : 0..MaxRemaining, reset : 0..MaxReset]
    \cup {[kind |-> "status", remaining |-> 0, reset |-> 0],
          [kind |-> "exception", remaining |-> 0, reset |-> 0]}

\* One iteration of the loop of _update_token_stats on token i.
UpdatedStat(stat, o) ==
    IF o.kind = "ok"
    THEN [remaining |-> o.remaining, reset_time |-> o.reset, active |-> o.remaining > 0]
    ELSE IF o.kind = "exception"
    THEN [stat EXCEPT !.active = FALSE]
    ELSE stat

\* The test of line 52.
TokenEligibleNoActive(stat, best_remaining) == stat.remaining > best_remaining
TokenEligibleTie(stat, best_remaining) == stat.active /\ stat.remaining >= best_remaining
TokenEligible(stat, best_remaining) ==
    stat.active /\ stat.remaining > best_remaining

\* The selection loop, lines 47-54, as the code runs it.
RECURSIVE BestLoop(_, _, _, _, _)
BestLoop(stats, n, i, best_index, best_remaining) ==
    IF i >= n THEN best_index
    ELSE IF TokenEligible(stats[i], best_remaining)
         THEN BestLoop(stats, n, i + 1, i, stats[i].remaining)
         ELSE BestLoop(stats, n, i + 1, best_index, best_remaining)

BestIndex(stats, n) == BestLoop(stats, n, 0, None, 0)

\* _wait_for_reset, lines 103-107.
EarliestReset(stats) == Min({stats[i].reset_time : i \in DOMAIN stats})
WaitTime(stats, t) == EarliestReset(stats) - t

\* time.sleep(wait_time + 5), line 110: the time at which the sleeper resumes.
WakeTimeNoWait(t, wait_time) == t
WakeTime(t, wait_time) == t + wait_time + ResetBuffer

\* The reactivation loop of lines 113-114.
Reactivated(stats) == [i \in DOMAIN stats |-> [stats[i] EXCEPT !.active = TRUE]]

\* No discovery task is running.
P1Idle ==
    /\ collected_repos = {}
    /\ task = [w \in Threads |-> [nfacets |-> 0]]
    /\ fi = [w \in Threads |-> 0]
    /\ page = [w \in Threads |-> 1]
    /\ left = [w \in Threads |-> 0]
    /\ repositories = [w \in Threads |-> <<>>]
    /\ wpc = [w \in Threads |-> "off"]
    /\ offered = [w \in Threads |-> {}]
    /\ refused = {}
    /\ requested = [w \in Threads |-> <<>>]

\* The table is empty and no Phase-2 run is under way.
DBIdle ==
    /\ rows = <<>>
    /\ candidates = <<>>
    /\ pending = {}
    /\ cutoff_date = 0
    /\ skip_forks = TRUE
    /\ p2pc = "idle"
    /\ completed_count = 0
    /\ failed_count = 0
    /\ enriched_count = 0

\* No enrichment worker is running and get_repository_languages has not
\* been called.
EnIdle ==
    /\ epc = "off"
    /\ target = 0
    /\ enrichment_data = <<>>
    /\ activity_data = <<>>
    /\ fetched = <<>>
    /\ update_fields = <<>>
    /\ updates_issued = 0
    /\ worker_result = <<>>
    /\ languages = <<>>
    /\ language_data = <<>>
    /\ lpc = "off"

\* No executor exists.
PoolIdle ==
    /\ search_tasks = <<>>
    /\ max_workers = 0
    /\ work_queue = <<>>
    /\ pool_threads = 0
    /\ executing = {}
    /\ runs = <<>>
    /\ nsubmitted = 0
    /\ ppc = "off"

\* No standalone collector exists.
SAIdle ==
    /\ spc = "off"
    /\ call_depth = 0
    /\ api_calls = 0
    /\ clock = 0
    /\ sleep_for = 0
    /\ reply = "pending"
    /\ gpc = "off"
    /\ file_i = 0
    /\ stored_ids = {}
    /\ processed_repos = {}
    /\ found = <<>>
    /\ saving = 0
    /\ at_startup = {}
    /\ times_processed = <<>>
    /\ times_saved = <<>>
    /\ failures = {}
    /\ loaded = FALSE

\* collect_all_basic_repos is not running.
ColIdle ==
    /\ handled = {}
    /\ all_repositories = <<>>
    /\ completed_tasks = 0
    /\ total_collected = 0
    /\ upserted = <<>>
    /\ cpc = "off"

\* make_github_request is not running.
ReqIdle ==
    /\ max_retries = 0
    /\ attempt = 0
    /\ rpc = "off"
    /\ responses = <<>>
    /\ waits = <<>>
    /\ result = "pending"

InitTM ==
    /\ ntokens \in 0..MaxTokens
    /\ token_stats = InitStats(ntokens)
    /\ lock = NoThread
    /\ now = 0
    /\ tpc = [t \in Threads |-> "idle"]
    /\ idx = [t \in Threads |-> 0]
    /\ depth = [t \in Threads |-> 0]
    /\ wake = [t \in Threads |-> 0]
    /\ earliest = [t \in Threads |-> None]
    /\ ret = [t \in Threads |-> None]
    /\ ReqIdle
    /\ P1Idle
    /\ DBIdle
    /\ EnIdle
    /\ ColIdle
    /\ PoolIdle
    /\ SAIdle

\* A worker calls token_manager.get_best_token().
Call(t) ==
    /\ tpc[t] \in {"idle", "done"}
    /\ tpc' = [tpc EXCEPT ![t] = "enter"]
    /\ depth' = [depth EXCEPT ![t] = 0]
    /\ ret' = [ret EXCEPT ![t] = None]
    /\ wake' = [wake EXCEPT ![t] = 0]
    /\ earliest' = [earliest EXCEPT ![t] = None]
    /\ idx' = [idx EXCEPT ![t] = 0]
    /\ UNCHANGED <<ntokens, token_stats, lock, now>>
    /\ UNCHANGED <<reqVars, p1Vars, dbVars, colVars, enVars, poolVars, saVars>>

CanAcquireAlways(holder) == TRUE

\* threading.Lock.acquire (line 39) goes through when no thread holds the lock.
CanAcquire(holder) == holder = NoThread

\* `with self.lock:` (line 39). threading.Lock is not reentrant: the
\* acquisition waits until no thread holds the lock, the caller included.
AcquireLock(t) ==
    /\ tpc[t] = "enter"
    /\ CanAcquire(lock)
    /\ lock' = t
    /\ tpc' = [tpc EXCEPT ![t] = "locked"]
    /\ idx' = [idx EXCEPT ![t] = 0]
    /\ UNCHANGED <<ntokens, token_stats, now, depth, wake, earliest, ret>>
    /\ UNCHANGED <<reqVars, p1Vars, dbVars, colVars, enVars, poolVars, saVars>>

\* Lines 40-41: no tokens configured.
ReturnNoTokens(t) ==
    /\ tpc[t] = "locked"
    /\ ntokens = 0
    /\ ret' = [ret EXCEPT ![t] = None]
    /\ lock' = NoThread
    /\ tpc' = [tpc EXCEPT ![t] = "done"]
    /\ UNCHANGED <<ntokens, token_stats, now, idx, depth, wake, earliest>>
    /\ UNCHANGED <<reqVars, p1Vars, dbVars, colVars, enVars, poolVars, saVars>>

\* One iteration of _update_token_stats (lines 73-99), under the lock.
RateLimitCheck(t) ==
    /\ tpc[t] = "locked"
    /\ idx[t] < ntokens
    /\ \E o \in RateLimitOutcomes :
         token_stats' = [token_stats EXCEPT ![idx[t]] = UpdatedStat(@, o)]
    /\ idx' = [idx EXCEPT ![t] = @ + 1]
    /\ UNCHANGED <<ntokens, lock, now, tpc, depth, wake, earliest, ret>>
    /\ UNCHANGED <<reqVars, p1Vars, dbVars, colVars, enVars, poolVars, saVars>>

\* Lines 46-54 and 61-69: a token was found; it is returned and the lock released.
ReturnBest(t) ==
    /\ tpc[t] = "locked"
    /\ ntokens > 0
    /\ idx[t] = ntokens
    /\ BestIndex(token_stats, ntokens) # None
    /\ ret' = [ret EXCEPT ![t] = BestIndex(token_stats, ntokens)]
    /\ lock' = NoThread
    /\ tpc' = [tpc EXCEPT ![t] = "done"]
    /\ UNCHANGED <<ntokens, token_stats, now, idx, depth, wake, earliest>>
    /\ UNCHANGED <<reqVars, p1Vars, dbVars, colVars, enVars, poolVars, saVars>>

\* Lines 56-58: best_index is None; _wait_for_reset is entered, lock held.
NoneActive(t) ==
    /\ tpc[t] = "locked"
    /\ ntokens > 0
    /\ idx[t] = ntokens
    /\ BestIndex(token_stats, ntokens) = None
    /\ tpc' = [tpc EXCEPT ![t] = "wait_for_reset"]
    /\ UNCHANGED <<ntokens, token_stats, lock, now, idx, depth, wake, earliest, ret>>
    /\ UNCHANGED <<reqVars, p1Vars, dbVars, colVars, enVars, poolVars, saVars>>

\* Lines 103-110 with wait_time > 0: the thread goes to sleep, lock held.
StartSleep(t) ==
    /\ tpc[t] = "wait_for_reset"
    /\ WaitTime(token_stats, now) > 0
    /\ earliest' = [earliest EXCEPT ![t] = EarliestReset(token_stats)]
    /\ wake' = [wake EXCEPT ![t] = WakeTime(now, WaitTime(token_stats, now))]
    /\ tpc' = [tpc EXCEPT ![t] = "sleep"]
    /\ UNCHANGED <<ntokens, token_stats, lock, now, idx, depth, ret>>
    /\ UNCHANGED <<reqVars, p1Vars, dbVars, colVars, enVars, poolVars, saVars>>

\* Lines 103-108 with wait_time <= 0: nothing is slept and nothing is
\* reactivated; line 59 then calls get_best_token again, lock still held.
SkipSleep(t) ==
    /\ tpc[t] = "wait_for_reset"
    /\ WaitTime(token_stats, now) <= 0
    /\ earliest' = [earliest EXCEPT ![t] = EarliestReset(token_stats)]
    /\ tpc' = [tpc EXCEPT ![t] = "enter"]
    /\ depth' = [depth EXCEPT ![t] = @ + 1]
    /\ UNCHANGED <<ntokens, token_stats, lock, now, idx, wake, ret>>
    /\ UNCHANGED <<reqVars, p1Vars, dbVars, colVars, enVars, poolVars, saVars>>

\* The sleep of line 110 is over: lines 113-114 reactivate every token and
\* line 59 calls get_best_token again, lock still held.
WakeUp(t) ==
    /\ tpc[t] = "sleep"
    /\ now >= wake[t]
    /\ token_stats' = Reactivated(token_stats)
    /\ tpc' = [tpc EXCEPT ![t] = "enter"]
    /\ depth' = [depth EXCEPT ![t] = @ + 1]
    /\ UNCHANGED <<ntokens, lock, now, idx, wake, earliest, ret>>
    /\ UNCHANGED <<reqVars, p1Vars, dbVars, colVars, enVars, poolVars, saVars>>

\* Time passes, one second at a time.
Tick ==
    /\ now < MaxTime
    /\ now' = now + 1
    /\ UNCHANGED <<ntokens, token_stats, lock, tpc, idx, depth, wake, earliest, ret>>
    /\ UNCHANGED <<reqVars, p1Vars, dbVars, colVars, enVars, poolVars, saVars>>

\* Time passes while thread t is in time.sleep: the clock reaches the end
\* of its sleep.
SleepElapses(t) ==
    /\ tpc[t] = "sleep"
    /\ now < wake[t]
    /\ now' = wake[t]
    /\ UNCHANGED <<ntokens, token_stats, lock, tpc, idx, depth, wake, earliest, ret>>
    /\ UNCHANGED <<reqVars, p1Vars, dbVars, colVars, enVars, poolVars, saVars>>

\* The steps of thread t inside get_best_token.
ThreadStep(t) ==
    \/ AcquireLock(t)
    \/ ReturnNoTokens(t)
    \/ RateLimitCheck(t)
    \/ ReturnBest(t)
    \/ NoneActive(t)
    \/ StartSleep(t)
    \/ SkipSleep(t)
    \/ WakeUp(t)

NextTM ==
    \/ \E t \in Threads : Call(t)
    \/ \E t \in Threads : ThreadStep(t)
    \/ Tick
    \/ \E t \in Threads : SleepElapses(t)


\* The credential pool fixed in its constructed state with no tokens and no
\* caller: the value of the TokenManager variables in the other machines.
TMIdle ==
    /\ ntokens = 0
    /\ token_stats = InitStats(0)
    /\ lock = NoThread
    /\ now = 0
    /\ tpc = [t \in Threads |-> "idle"]
    /\ idx = [t \in Threads |-> 0]
    /\ depth = [t \in Threads |-> 0]
    /\ wake = [t \in Threads |-> 0]
    /\ earliest = [t \in Threads |-> None]
    /\ ret = [t \in Threads |-> None]

\* ======================================================================
\*  make_github_request (app/utils.py)
\* ======================================================================

MaxRetriesArg == 3   \* max_retries is drawn from 0..MaxRetriesArg (default 3, utils.py:36)
ResetFar      == 90  \* a reset header this many seconds ahead of the clock

MinRateLimitSleep == 60   \* utils.py:30, max(reset_time - time.time(), 60)

NetworkError == 0   \* requests.get raised RequestException: there is no response

\* What one requests.get can produce: a status with the two rate-limit
\* headers the code reads (remaining as the header's string, "absent" when
\* the header is missing; resetIn = X-RateLimit-Reset - time.time()), or an
\* exception. Headers are only enumerated for the statuses that read them
\* or whose quota meaning the claims speak of (403, 429, and a 200 that
\* reports the quota left).
HttpOutcomes ==
    [status : {403}, remaining : {"0", "1", "absent"}, resetIn : {0, ResetFar}]
    \cup [status : {429}, remaining : {"0", "1"}, resetIn : {0}]
    \cup [status : {200}, remaining : {"1"}, resetIn : {ResetFar}]
    \cup [status : {200, 404, 500, NetworkError}, remaining : {"absent"}, resetIn : {0}]

Max(a, b) == IF a >= b THEN a ELSE b

RECURSIVE Pow2(_)
Pow2(n) == IF n <= 0 THEN 1 ELSE 2 * Pow2(n - 1)

\* response.headers.get('X-RateLimit-Remaining', '0'), line 26.
HeaderRemaining(resp) == IF resp.remaining = "absent" THEN "0" ELSE resp.remaining

\* rate_limit_handler, lines 23-32: the seconds it sleeps for this response
\* (0: it returns without sleeping).
RateLimitSleep(resp) ==
    IF resp.status = 403 /\ HeaderRemaining(resp) = "0"
    THEN Max(resp.resetIn, MinRateLimitSleep)
    ELSE 0

\* time.sleep(2 ** attempt), lines 54 and 61.
BackoffLinear(k) == 2 * k
Backoff(k) == Pow2(k)

\* `if attempt < max_retries - 1`, lines 53 and 60: whether the failure on
\* this attempt is followed by a sleep and another attempt.
RetryAfterFailureAlways(k, m) == TRUE
RetryAfterFailureEarly(k, m) == k < m - 2
RetryAfterFailure(k, m) == k < m - 1

\* `elif response.status_code == 404`, line 48.
NotFoundNever(resp) == FALSE
NotFound(resp) == resp.status = 404

\* range(max_retries), line 39: whether the loop body runs for this attempt.
InRange(k, m) == k < m

Slept(k, secs, kind) == [attempt |-> k, seconds |-> secs, kind |-> kind]

InitReq ==
    /\ max_retries \in 0..MaxRetriesArg
    /\ attempt = 0
    /\ rpc = "loop"
    /\ responses = <<>>
    /\ waits = <<>>
    /\ result = "pending"
    /\ TMIdle
    /\ P1Idle
    /\ DBIdle
    /\ EnIdle
    /\ ColIdle
    /\ PoolIdle
    /\ SAIdle


\* Lines 43-44: status 200, the response is returned.
On200 ==
    /\ rpc = "loop"
    /\ InRange(attempt, max_retries)
    /\ \E resp \in {o \in HttpOutcomes : o.status = 200} :
         responses' = Append(responses, resp)
    /\ result' = "response"
    /\ rpc' = "done"
    /\ UNCHANGED <<max_retries, attempt, waits>>
    /\ UNCHANGED <<tmVars, p1Vars, dbVars, colVars, enVars, poolVars, saVars>>

\* Lines 45-47: status 403; rate_limit_handler may sleep, then `continue`
\* moves the for loop to the next attempt.
On403 ==
    /\ rpc = "loop"
    /\ InRange(attempt, max_retries)
    /\ \E resp \in {o \in HttpOutcomes : o.status = 403} :
         /\ responses' = Append(responses, resp)
         /\ waits' = IF RateLimitSleep(resp) > 0
                     THEN Append(waits, Slept(attempt, RateLimitSleep(resp), "rate_limit"))
                     ELSE waits
    /\ attempt' = attempt + 1
    /\ UNCHANGED <<max_retries, rpc, result>>
    /\ UNCHANGED <<tmVars, p1Vars, dbVars, colVars, enVars, poolVars, saVars>>

\* Lines 48-50: status 404, None is returned at once.
On404 ==
    /\ rpc = "loop"
    /\ InRange(attempt, max_retries)
    /\ \E resp \in {o \in HttpOutcomes : o.status \notin {200, 403} /\ NotFound(o)} :
         responses' = Append(responses, resp)
    /\ result' = "none"
    /\ rpc' = "done"
    /\ UNCHANGED <<max_retries, attempt, waits>>
    /\ UNCHANGED <<tmVars, p1Vars, dbVars, colVars, enVars, poolVars, saVars>>

\* Lines 51-56 (any other status) and 58-63 (RequestException): sleep
\* 2 ** attempt and go on, or return None on the last attempt.
OnFailure ==
    /\ rpc = "loop"
    /\ InRange(attempt, max_retries)
    /\ \E resp \in {o \in HttpOutcomes : o.status \notin {200, 403} /\ ~NotFound(o)} :
         responses' = Append(responses, resp)
    /\ IF RetryAfterFailure(attempt, max_retries)
       THEN /\ waits' = Append(waits, Slept(attempt, Backoff(attempt), "backoff"))
            /\ attempt' = attempt + 1
            /\ UNCHANGED <<rpc, result>>
       ELSE /\ result' = "none"
            /\ rpc' = "done"
            /\ UNCHANGED <<attempt, waits>>
    /\ UNCHANGED max_retries
    /\ UNCHANGED <<tmVars, p1Vars, dbVars, colVars, enVars, poolVars, saVars>>

\* Line 65: the for loop ran out of attempts.
LoopExhausted ==
    /\ rpc = "loop"
    /\ ~InRange(attempt, max_retries)
    /\ result' = "none"
    /\ rpc' = "done"
    /\ UNCHANGED <<max_retries, attempt, responses, waits>>
    /\ UNCHANGED <<tmVars, p1Vars, dbVars, colVars, enVars, poolVars, saVars>>

NextReq ==
    \/ On200
    \/ On403
    \/ On404
    \/ OnFailure
    \/ LoopExhausted

SpecReq == InitReq /\ [][NextReq]_vars

\* The thread that calls make_github_request with a token of the pool.
Caller == "w1"

\* make_github_request is called with the headers get_best_token has just
\* returned to Caller (token_manager.py:61-69): the pool holds 1..MaxTokens
\* tokens, every GET /rate_limit of the selection answered with a status
\* other than 200, which leaves the stats as constructed (lines 84-95), and
\* the token handed out is the one the selection loop picks.
InitReqPool ==
    /\ ntokens \in 1..MaxTokens
    /\ token_stats = InitStats(ntokens)
    /\ lock = NoThread
    /\ now = 0
    /\ tpc = [t \in Threads |-> IF t = Caller THEN "done" ELSE "idle"]
    /\ idx = [t \in Threads |-> IF t = Caller THEN ntokens ELSE 0]
    /\ depth = [t \in Threads |-> 0]
    /\ wake = [t \in Threads |-> 0]
    /\ earliest = [t \in Threads |-> None]
    /\ ret = [t \in Threads |-> IF t = Caller THEN BestIndex(token_stats, ntokens) ELSE None]
    /\ max_retries \in 0..MaxRetriesArg
    /\ attempt = 0
    /\ rpc = "loop"
    /\ responses = <<>>
    /\ waits = <<>>
    /\ result = "pending"
    /\ P1Idle
    /\ DBIdle
    /\ EnIdle
    /\ ColIdle
    /\ PoolIdle
    /\ SAIdle

SpecReqPool == InitReqPool /\ [][NextReq]_vars

\* ======================================================================
\*  Phase1Collector: the discovery workers (app/phases/phase1.py)
\* ======================================================================

MaxFacets        == 2   \* a task searches 1..MaxFacets file types or topics
MaxId            == 3   \* github ids 1..MaxId; 0 stands for a missing id
MaxPageLen       == 2   \* a page of results holds at most this many items
PHASE1_MAX_REPOS == 2   \* the result ceiling (config.py:38, from the environment)
MaxPages         == 2   \* paging stops after this page; the code's limit is
                        \* page 10 (phase1.py:137 and 202, `if page > 10: break`)

\* The tasks collect_all_basic_repos creates (lines 285-301): a batch of
\* file types with a language, or a batch of topics. search_worker (lines
\* 255-267) hands the first kind to search_repositories_by_files and the
\* second to search_repositories_by_topics. The two functions differ only
\* in the query string they build (lines 80-95, 151-163); their loops are
\* the same statement for statement, so a task is described by the number
\* of file types or topics it holds, and the actions below are the steps
\* of either function.
SearchTasks == [nfacets : 1..MaxFacets]

\* add_repository_safe, lines 64-68: the test made under repo_lock.
IsNewAlways(repo_id, seen) == TRUE
IsNew(repo_id, seen) == repo_id \notin seen

\* `self.collected_repos.add(repo_id)`, line 66, under the same lock.
AddRepositoryForgets(seen, repo_id) == seen
AddRepository(seen, repo_id) == seen \cup {repo_id}

\* What an item adds to the record of the unseen items a task was offered:
\* its id, when it has one and no task of this run had collected it.
Unseen(repo_id, seen) == IF repo_id # 0 /\ repo_id \notin seen THEN {repo_id} ELSE {}

\* The unseen ids among the n items of a page that the for loop leaves
\* unread when it breaks at the ceiling (lines 127-128, 193-194).
RestOfPage(seen, n) == {S \in SUBSET ((1..MaxId) \ seen) : Cardinality(S) <= n}

\* `while len(repositories) < PHASE1_MAX_REPOS`, lines 100 and 168.
UnderCeiling(repos) == Len(repos) < PHASE1_MAX_REPOS

\* `if len(repositories) >= PHASE1_MAX_REPOS: break`, lines 127 and 193.
HitCeilingLate(repos) == Len(repos) > PHASE1_MAX_REPOS
HitCeiling(repos) == Len(repos) >= PHASE1_MAX_REPOS

InitP1 ==
    /\ collected_repos = {}
    /\ task \in [Threads -> SearchTasks]
    /\ fi = [w \in Threads |-> 0]
    /\ page = [w \in Threads |-> 1]
    /\ left = [w \in Threads |-> 0]
    /\ repositories = [w \in Threads |-> <<>>]
    /\ wpc = [w \in Threads |-> "for_facet"]
    /\ offered = [w \in Threads |-> {}]
    /\ refused = {}
    /\ requested = [w \in Threads |-> <<>>]
    /\ TMIdle
    /\ ReqIdle
    /\ DBIdle
    /\ EnIdle
    /\ ColIdle
    /\ PoolIdle
    /\ SAIdle

\* `for file_type in file_types` / `for topic in topics` (lines 79, 150):
\* the next facet's query is built and its paging starts at page 1.
NextFacet(w) ==
    /\ wpc[w] = "for_facet"
    /\ fi[w] < task[w].nfacets
    /\ page' = [page EXCEPT ![w] = 1]
    /\ wpc' = [wpc EXCEPT ![w] = "while"]
    /\ requested' = [requested EXCEPT ![w] = <<>>]
    /\ UNCHANGED <<collected_repos, task, fi, left, repositories, offered, refused>>
    /\ UNCHANGED <<tmVars, reqVars, dbVars, colVars, enVars, poolVars, saVars>>

\* Lines 140 and 205: the facets are used up, the list is returned.
ReturnRepositories(w) ==
    /\ wpc[w] = "for_facet"
    /\ fi[w] >= task[w].nfacets
    /\ wpc' = [wpc EXCEPT ![w] = "done"]
    /\ UNCHANGED <<collected_repos, task, fi, page, left, repositories, offered, refused, requested>>
    /\ UNCHANGED <<tmVars, reqVars, dbVars, colVars, enVars, poolVars, saVars>>

\* The while condition is false: paging of this facet ends.
CeilingReached(w) ==
    /\ wpc[w] = "while"
    /\ ~UnderCeiling(repositories[w])
    /\ fi' = [fi EXCEPT ![w] = @ + 1]
    /\ wpc' = [wpc EXCEPT ![w] = "for_facet"]
    /\ UNCHANGED <<collected_repos, task, page, left, repositories, offered, refused, requested>>
    /\ UNCHANGED <<tmVars, reqVars, dbVars, colVars, enVars, poolVars, saVars>>

\* Lines 110-113 and 178-180: thread_safe_request returned nothing.
NoResponse(w) ==
    /\ wpc[w] = "while"
    /\ UnderCeiling(repositories[w])
    /\ fi' = [fi EXCEPT ![w] = @ + 1]
    /\ wpc' = [wpc EXCEPT ![w] = "for_facet"]
    /\ requested' = [requested EXCEPT ![w] = Append(@, page[w])]
    /\ UNCHANGED <<collected_repos, task, page, left, repositories, offered, refused>>
    /\ UNCHANGED <<tmVars, reqVars, dbVars, colVars, enVars, poolVars, saVars>>

\* Lines 115-120 and 182-186: the page holds no items.
EmptyPage(w) ==
    /\ wpc[w] = "while"
    /\ UnderCeiling(repositories[w])
    /\ left' = [left EXCEPT ![w] = 0]
    /\ fi' = [fi EXCEPT ![w] = @ + 1]
    /\ wpc' = [wpc EXCEPT ![w] = "for_facet"]
    /\ requested' = [requested EXCEPT ![w] = Append(@, page[w])]
    /\ UNCHANGED <<collected_repos, task, page, repositories, offered, refused>>
    /\ UNCHANGED <<tmVars, reqVars, dbVars, colVars, enVars, poolVars, saVars>>

\* Lines 115-122 and 182-188: the page holds 1..MaxPageLen items. Which
\* items they are is drawn when the for loop reaches each of them.
ItemsPage(w) ==
    /\ wpc[w] = "while"
    /\ UnderCeiling(repositories[w])
    /\ \E n \in 1..MaxPageLen : left' = [left EXCEPT ![w] = n]
    /\ wpc' = [wpc EXCEPT ![w] = "for_item"]
    /\ requested' = [requested EXCEPT ![w] = Append(@, page[w])]
    /\ UNCHANGED <<collected_repos, task, fi, page, repositories, offered, refused>>
    /\ UNCHANGED <<tmVars, reqVars, dbVars, colVars, enVars, poolVars, saVars>>

\* Lines 122-128 and 188-194, one iteration of `for item in items`:
\* an item with an id that add_repository_safe (lines 62-68, atomic under
\* repo_lock) finds new is appended; at the ceiling the for loop is left.
\* The items the break leaves unread were on the page all the same: the
\* new ids among them are drawn here and recorded as offered.
ProcessItem(w) ==
    /\ wpc[w] = "for_item"
    /\ left[w] > 0
    /\ \E repo_id \in 0..MaxId :
         /\ IF repo_id # 0 /\ IsNew(repo_id, collected_repos)
            THEN /\ collected_repos' = AddRepository(collected_repos, repo_id)
                 /\ repositories' = [repositories EXCEPT ![w] = Append(@, repo_id)]
                 /\ left' = [left EXCEPT ![w] =
                               IF HitCeiling(Append(repositories[w], repo_id))
                               THEN 0 ELSE @ - 1]
            ELSE /\ left' = [left EXCEPT ![w] = @ - 1]
                 /\ UNCHANGED <<collected_repos, repositories>>
         /\ IF cpc = "off"
            THEN UNCHANGED offered
            ELSE IF repo_id # 0 /\ IsNew(repo_id, collected_repos)
                    /\ HitCeiling(Append(repositories[w], repo_id))
                 THEN \E rest \in RestOfPage(collected_repos \cup {repo_id}, left[w] - 1) :
                        offered' = [offered EXCEPT ![w] = @ \cup {repo_id} \cup rest]
                 ELSE offered' = [offered EXCEPT ![w] =
                                    @ \cup Unseen(repo_id, collected_repos)]
         /\ IF /\ cpc # "off"
               /\ repo_id # 0 /\ ~IsNew(repo_id, collected_repos)
               /\ repo_id \notin SeqRange(repositories[w])
            THEN refused' = refused \cup {repo_id}
            ELSE UNCHANGED refused
    /\ UNCHANGED <<task, fi, page, wpc, requested>>
    /\ UNCHANGED <<tmVars, reqVars, dbVars, colVars, enVars, poolVars, saVars>>

NextPageSame(p) == p

\* page += 1, lines 133 and 199.
NextPage(p) == p + 1

\* Lines 130-138 and 196-203: the page is done; page += 1, the pacing
\* sleep, and the end of paging after page 10.
EndPage(w) ==
    /\ wpc[w] = "for_item"
    /\ left[w] = 0
    /\ page' = [page EXCEPT ![w] = NextPage(@)]
    /\ IF NextPage(page[w]) > MaxPages
       THEN /\ fi' = [fi EXCEPT ![w] = @ + 1]
            /\ wpc' = [wpc EXCEPT ![w] = "for_facet"]
       ELSE /\ wpc' = [wpc EXCEPT ![w] = "while"]
            /\ UNCHANGED fi
    /\ UNCHANGED <<collected_repos, task, left, repositories, offered, refused, requested>>
    /\ UNCHANGED <<tmVars, reqVars, dbVars, colVars, enVars, poolVars, saVars>>

WorkerStep(w) ==
    \/ NextFacet(w)
    \/ ReturnRepositories(w)
    \/ CeilingReached(w)
    \/ NoResponse(w)
    \/ EmptyPage(w)
    \/ ItemsPage(w)
    \/ ProcessItem(w)
    \/ EndPage(w)

NextP1 == \E w \in Threads : WorkerStep(w)

\* ======================================================================
\*  The repositories table (app/models/database.py), the snapshot written
\*  by Phase 1 (app/models/repository.py) and Phase 2 (app/phases/phase2.py)
\* ======================================================================

MaxDate          == 1   \* created_at is a day in 0..MaxDate
PHASE2_MAX_REPOS == 1   \* the LIMIT of the selection (config.py:45, from the environment)
PHASE2_MIN_STARS == 1   \* the star threshold (config.py:43, from the environment)

PHASE2_MAX_AGE_YEARS == 5     \* config.py:44
DaysPerYear          == 365   \* phase2.py:63, timedelta(days=PHASE2_MAX_AGE_YEARS * 365)

\* The github ids of the entities the table is exercised with: the claims
\* speak of one entity, or of the order of two.
StoredIds == {1, 2}

\* The star counts the table is exercised with: just below the threshold
\* of the selection, at it, and above it.
StarCounts == {PHASE2_MIN_STARS - 1, PHASE2_MIN_STARS, PHASE2_MIN_STARS + 1}

\* Python's None / SQL NULL in the description column.
NoDescription == "none"

\* What the search API can report for repository g: the attributes the model
\* follows are stargazers_count and description (rewritten on conflict),
\* fork and created_at (written on insert only).
ApiItems(g) ==
    [id : {g}, stargazers_count : StarCounts, description : {NoDescription, "text"},
     fork : BOOLEAN, created_at : 0..MaxDate]

\* self.phase1_completed = False, repository.py:80: the attribute of the
\* object, which extract_all_basic_fields does not read.
Phase1MarkerUnset == FALSE

\* 'phase1_completed': True, repository.py:149.
Phase1Marker == TRUE

\* Repository.__init__ and extract_all_basic_fields (repository.py:13-96,
\* 107-151): the attributes are copied from the API data as they are, None
\* included, and the Phase-1 marker is set.
ExtractAllBasicFields(item) ==
    [github_id |-> item.id,
     stargazers_count |-> item.stargazers_count,
     description |-> item.description,
     fork |-> item.fork,
     created_at |-> item.created_at,
     phase1_completed |-> Phase1Marker]

\* phase2_completed of a freshly inserted row. The INSERT (database.py:96-105)
\* does not name the column, so it takes the column's default; the table
\* definition is not among the sources, and the selection's test
\* `phase2_completed = false` (phase2.py:69) presupposes a default of false.
Phase2CompletedDefault == FALSE

\* INSERT ... VALUES, database.py:96-105: the row a snapshot creates.
InsertedRow(snap) ==
    [stargazers_count |-> snap.stargazers_count,
     description |-> snap.description,
     fork |-> snap.fork,
     created_at |-> snap.created_at,
     phase1_completed |-> snap.phase1_completed,
     phase2_completed |-> Phase2CompletedDefault]

\* ON CONFLICT (github_id) DO UPDATE SET ..., database.py:106-119: the
\* columns in the SET list take the snapshot's value (EXCLUDED.x), the
\* others (fork and created_at among them) keep the stored one.
ConflictUpdateUnmarks(row, snap) ==
    [row EXCEPT !.stargazers_count = snap.stargazers_count,
                !.description = snap.description,
                !.phase1_completed = Phase1MarkerUnset]
ConflictUpdateResets(row, snap) ==
    [row EXCEPT !.stargazers_count = snap.stargazers_count,
                !.description = snap.description,
                !.phase1_completed = snap.phase1_completed,
                !.phase2_completed = Phase2CompletedDefault]
ConflictUpdate(row, snap) ==
    [row EXCEPT !.stargazers_count = snap.stargazers_count,
                !.description = snap.description,
                !.phase1_completed = snap.phase1_completed]

\* The statement of bulk_insert_repositories for one record.
Upsert(table, snap) ==
    LET g == snap.github_id IN
    IF g \in DOMAIN table
    THEN [table EXCEPT ![g] = ConflictUpdate(@, snap)]
    ELSE [x \in DOMAIN table \cup {g} |-> IF x = g THEN InsertedRow(snap) ELSE table[x]]

\* cutoff_date = datetime.now() - timedelta(days=PHASE2_MAX_AGE_YEARS * 365),
\* phase2.py:63, in days.
CutoffDate(today) == today - PHASE2_MAX_AGE_YEARS * DaysPerYear

\* The days on which a selection is made: those that put the cutoff on one
\* of the days a row can have been created.
Days == {PHASE2_MAX_AGE_YEARS * DaysPerYear + d : d \in 0..MaxDate}

\* The WHERE clause, phase2.py:68-76, condition by condition.
BasicDone(row) == row.phase1_completed = TRUE
NotYetEnrichedAny(row) == TRUE
NotYetEnriched(row) == row.phase2_completed = FALSE
EnoughStarsStrict(row) == row.stargazers_count > PHASE2_MIN_STARS
EnoughStars(row) == row.stargazers_count >= PHASE2_MIN_STARS
RecentEnough(row, cutoff) == row.created_at >= cutoff
ForkAllowed(row, skip) == skip => (row.fork = FALSE)

Where(row, cutoff, skip) ==
    /\ BasicDone(row)
    /\ NotYetEnriched(row)
    /\ EnoughStars(row)
    /\ RecentEnough(row, cutoff)
    /\ ForkAllowed(row, skip)

\* ORDER BY stargazers_count DESC, created_at DESC, phase2.py:79: row a is
\* placed before row b. Rows equal in both columns come in any order.
SortsBefore(a, b) ==
    \/ a.stargazers_count > b.stargazers_count
    \/ a.stargazers_count = b.stargazers_count /\ a.created_at > b.created_at

\* The orders in which the statement can return the rows with ids S.
Orderings(table, S) ==
    {f \in [1..Cardinality(S) -> S] :
        /\ \A i, j \in 1..Cardinality(S) : i # j => f[i] # f[j]
        /\ \A i, j \in 1..Cardinality(S) : i < j => ~SortsBefore(table[f[j]], table[f[i]])}

\* LIMIT %s with PHASE2_MAX_REPOS, phase2.py:80-82.
Limit(seq) == IF Len(seq) > PHASE2_MAX_REPOS THEN SubSeq(seq, 1, PHASE2_MAX_REPOS) ELSE seq

\* The results db.execute_query can return for the selection.
QueryResults(table, cutoff, skip) ==
    {Limit(f) : f \in Orderings(table, {g \in DOMAIN table : Where(table[g], cutoff, skip)})}

InitDB ==
    /\ rows = <<>>
    /\ candidates = <<>>
    /\ pending = {}
    /\ cutoff_date = 0
    /\ skip_forks \in BOOLEAN
    /\ p2pc = "idle"
    /\ completed_count = 0
    /\ failed_count = 0
    /\ enriched_count = 0
    /\ TMIdle
    /\ ReqIdle
    /\ P1Idle
    /\ ColIdle
    /\ EnIdle
    /\ PoolIdle
    /\ SAIdle

\* bulk_insert_repositories (database.py:90-152) called by
\* save_repositories_batch (phase1.py:228-253) with the snapshot of one
\* discovered repository; a longer list is this statement once per record.
BulkInsertRepositories ==
    /\ \E g \in StoredIds : \E item \in ApiItems(g) :
         rows' = Upsert(rows, ExtractAllBasicFields(item))
    /\ UNCHANGED <<candidates, pending, cutoff_date, skip_forks, p2pc,
                   completed_count, failed_count, enriched_count>>
    /\ UNCHANGED <<tmVars, reqVars, p1Vars, colVars, enVars, poolVars, saVars>>

\* enrich_repositories, phase2.py:374-398, with the selection it starts
\* from (get_repositories_for_enrichment, lines 59-87): the query answers
\* and one worker per candidate is submitted.
GetRepositoriesForEnrichment ==
    /\ p2pc = "idle"
    /\ \E today \in Days :
         /\ cutoff_date' = CutoffDate(today)
         /\ \E res \in QueryResults(rows, CutoffDate(today), skip_forks) :
              /\ candidates' = res
              /\ pending' = SeqRange(res)
    /\ p2pc' = "running"
    /\ completed_count' = 0
    /\ failed_count' = 0
    /\ enriched_count' = 0
    /\ UNCHANGED <<rows, skip_forks>>
    /\ UNCHANGED <<tmVars, reqVars, p1Vars, colVars, enVars, poolVars, saVars>>

\* get_repositories_for_enrichment, lines 88-90: the query raised and the
\* selection is the empty list.
QueryFails ==
    /\ p2pc = "idle"
    /\ \E today \in Days : cutoff_date' = CutoffDate(today)
    /\ candidates' = <<>>
    /\ pending' = {}
    /\ p2pc' = "query_failed"
    /\ completed_count' = 0
    /\ failed_count' = 0
    /\ enriched_count' = 0
    /\ UNCHANGED <<rows, skip_forks>>
    /\ UNCHANGED <<tmVars, reqVars, p1Vars, colVars, enVars, poolVars, saVars>>

\* The UPDATE of enrich_repository_worker, phase2.py:337-360: the fields
\* fetched and the Phase-2 marker, WHERE github_id = the candidate's id.
EnrichmentUpdate(table, g) ==
    IF g \in DOMAIN table
    THEN [table EXCEPT ![g] = [@ EXCEPT !.phase2_completed = TRUE]]
    ELSE table

\* The as_completed loop of enrich_repositories counts a future whose
\* result is (True, name), phase2.py:404-406.
CountCompleted(n) == n + 1

CountFailedNot(n) == n

\* ... and one whose result is (False, name) or whose result() raised,
\* phase2.py:407-408 and 414-416.
CountFailed(n) == n + 1

\* enrich_repository_worker, phase2.py:306-368, for candidate g: the four
\* fetches, then the one UPDATE, which matches the stored row; the worker
\* returns (True, name) and the loop of enrich_repositories counts it
\* (lines 401-406; nothing else reads the counters before the return).
EnrichRepositoryWorker(g) ==
    /\ p2pc = "running"
    /\ g \in pending
    /\ rows' = EnrichmentUpdate(rows, g)
    /\ pending' = pending \ {g}
    /\ completed_count' = CountCompleted(completed_count)
    /\ UNCHANGED <<candidates, cutoff_date, skip_forks, p2pc, failed_count, enriched_count>>
    /\ UNCHANGED <<tmVars, reqVars, p1Vars, colVars, enVars, poolVars, saVars>>

\* enrich_repository_worker, lines 369-371: an exception before the UPDATE
\* took effect; the worker returns (False, full_name) and the loop of
\* enrich_repositories counts one failure (lines 407-408).
EnrichRepositoryWorkerFails(g) ==
    /\ p2pc = "running"
    /\ g \in pending
    /\ pending' = pending \ {g}
    /\ failed_count' = CountFailed(failed_count)
    /\ UNCHANGED <<rows, candidates, cutoff_date, skip_forks, p2pc, completed_count, enriched_count>>
    /\ UNCHANGED <<tmVars, reqVars, p1Vars, colVars, enVars, poolVars, saVars>>

\* enrich_repositories, lines 383-385 and 401-434: the list was empty, or
\* every future has been processed; the run returns.
EnrichRepositoriesReturns ==
    /\ p2pc \in {"running", "query_failed"}
    /\ pending = {}
    /\ candidates' = <<>>
    /\ cutoff_date' = 0
    /\ p2pc' = "idle"
    /\ enriched_count' = completed_count
    /\ completed_count' = 0
    /\ failed_count' = 0
    /\ UNCHANGED <<rows, pending, skip_forks>>
    /\ UNCHANGED <<tmVars, reqVars, p1Vars, colVars, enVars, poolVars, saVars>>

NextDB ==
    \/ BulkInsertRepositories
    \/ GetRepositoriesForEnrichment
    \/ QueryFails
    \/ \E g \in StoredIds : EnrichRepositoryWorker(g)
    \/ \E g \in StoredIds : EnrichRepositoryWorkerFails(g)
    \/ EnrichRepositoriesReturns

SpecDB == InitDB /\ [][NextDB]_vars

\* ======================================================================
\*  collect_all_basic_repos: the Phase-1 scheduler (app/phases/phase1.py)
\* ======================================================================

FlushThreshold == 2   \* the list is saved once it holds this many records;
                      \* the code's number is 1000 (phase1.py:326)

PageSize == 100       \* database.py:147, execute_values(..., page_size=100)

\* The item the search API returns for a repository id. The scheduler
\* treats the attributes as payload, so each id comes with one set of them.
SearchItem(repo_id) ==
    [id |-> repo_id, stargazers_count |-> PHASE2_MIN_STARS, description |-> "text",
     fork |-> FALSE, created_at |-> MaxDate]

\* save_repositories_batch, lines 234-241, and the statement of
\* bulk_insert_repositories for a list of records: every item is turned into
\* its snapshot and upserted.
RECURSIVE UpsertAll(_, _)
UpsertAll(table, batch) ==
    IF batch = <<>>
    THEN table
    ELSE UpsertAll(Upsert(table, ExtractAllBasicFields(SearchItem(Head(batch)))), Tail(batch))

\* `return cursor.rowcount`, database.py:149, for n > 0 records:
\* execute_values sends the records in statements of page_size rows and the
\* cursor keeps the row count of the last statement.
RowCount(n) == IF n % PageSize = 0 THEN PageSize ELSE n % PageSize

\* What save_repositories_batch returns when bulk_insert_repositories
\* raises, phase1.py:251-253.
SavedOnErrorCounts(batch) == Len(batch)

SavedOnError(batch) == 0

\* PostgreSQL rejects an INSERT ... ON CONFLICT DO UPDATE that names one
\* github_id twice ("command cannot affect row a second time").
CardinalityViolation(batch) == ~NoRepeat(batch)

\* `if len(all_repositories) >= 1000`, line 326.
ReachedThresholdNever(batch) == FALSE
ReachedThreshold(batch) == Len(batch) >= FlushThreshold

\* The record of calls after batch was passed to bulk_insert_repositories
\* (save_repositories_batch, line 248).
Passed(calls, batch) ==
    [g \in DOMAIN calls \cup SeqRange(batch) |->
        (IF g \in DOMAIN calls THEN calls[g] ELSE 0) + (IF g \in SeqRange(batch) THEN 1 ELSE 0)]

\* search_tasks, lines 278-301: the tasks that were submitted.
SearchTasksSubmitted == {w \in Threads : wpc[w] # "off"}

\* `completed_tasks += 1` in the except branch, line 334.
CountFailedTaskNot(n) == n
CountFailedTask(n) == n + 1

InitCol ==
    /\ collected_repos = {}
    /\ task = [w \in Threads |-> [nfacets |-> 1]]
    /\ fi = [w \in Threads |-> 0]
    /\ page = [w \in Threads |-> 1]
    /\ left = [w \in Threads |-> 0]
    /\ repositories = [w \in Threads |-> <<>>]
    /\ wpc = [w \in Threads |-> "for_facet"]
    /\ offered = [w \in Threads |-> {}]
    /\ refused = {}
    /\ requested = [w \in Threads |-> <<>>]
    /\ handled = {}
    /\ all_repositories = <<>>
    /\ completed_tasks = 0
    /\ total_collected = 0
    /\ upserted = <<>>
    /\ cpc = "collecting"
    /\ TMIdle
    /\ ReqIdle
    /\ DBIdle
    /\ EnIdle
    /\ PoolIdle
    /\ SAIdle

\* The lists search_worker can return when the set seen has been collected:
\* ids no task has collected, none twice, no more than PHASE1_MAX_REPOS.
ResultLists(seen) ==
    {l \in UNION {[1..n -> (1..MaxId) \ seen] : n \in 0..PHASE1_MAX_REPOS} : NoRepeat(l)}

\* search_worker (lines 255-267) run from its call to its return in one
\* step: the future of task w holds the list the search function built, and
\* the ids in it are in collected_repos.
FutureReturns(w) ==
    /\ wpc[w] = "for_facet"
    /\ fi[w] = 0
    /\ \E l \in ResultLists(collected_repos) :
         /\ repositories' = [repositories EXCEPT ![w] = l]
         /\ collected_repos' = collected_repos \cup SeqRange(l)
    /\ wpc' = [wpc EXCEPT ![w] = "done"]
    /\ UNCHANGED <<task, fi, page, left, offered, refused, requested>>
    /\ UNCHANGED <<tmVars, reqVars, dbVars, colVars, enVars, poolVars, saVars>>

\* search_worker raises (the search functions have no try, so an exception
\* of thread_safe_request or response.json() leaves them): the future holds
\* the exception, the list built so far is lost, and the ids added to
\* collected_repos before the exception stay there.
FutureRaises(w) ==
    /\ wpc[w] = "for_facet"
    /\ fi[w] = 0
    /\ \E l \in ResultLists(collected_repos) :
         /\ Len(l) < PHASE1_MAX_REPOS
         /\ collected_repos' = collected_repos \cup SeqRange(l)
    /\ wpc' = [wpc EXCEPT ![w] = "raised"]
    /\ UNCHANGED <<task, fi, page, left, repositories, offered, refused, requested>>
    /\ UNCHANGED <<tmVars, reqVars, dbVars, colVars, enVars, poolVars, saVars>>

\* One iteration of `for future in as_completed(...)`, lines 315-323, for a
\* future that holds a list, when the extended list stays under the
\* threshold of line 326.
TaskResult(w) ==
    /\ cpc = "collecting"
    /\ w \in SearchTasksSubmitted \ handled
    /\ wpc[w] = "done"
    /\ ~ReachedThreshold(all_repositories \o repositories[w])
    /\ all_repositories' = all_repositories \o repositories[w]
    /\ completed_tasks' = completed_tasks + 1
    /\ handled' = handled \cup {w}
    /\ UNCHANGED <<total_collected, upserted, cpc>>
    /\ UNCHANGED <<tmVars, reqVars, p1Vars, dbVars, enVars, poolVars, saVars>>

\* The same iteration when the extended list reaches the threshold, lines
\* 326-330: the list is saved, the count the database reports is added to
\* total_collected and the list is emptied.
TaskResultSaved(w) ==
    /\ cpc = "collecting"
    /\ w \in SearchTasksSubmitted \ handled
    /\ wpc[w] = "done"
    /\ ReachedThreshold(all_repositories \o repositories[w])
    /\ ~CardinalityViolation(all_repositories \o repositories[w])
    /\ rows' = UpsertAll(rows, all_repositories \o repositories[w])
    /\ upserted' = Passed(upserted, all_repositories \o repositories[w])
    /\ total_collected' =
         total_collected + RowCount(Len(all_repositories \o repositories[w]))
    /\ all_repositories' = <<>>
    /\ completed_tasks' = completed_tasks + 1
    /\ handled' = handled \cup {w}
    /\ UNCHANGED cpc
    /\ UNCHANGED <<candidates, pending, cutoff_date, skip_forks, p2pc,
                   completed_count, failed_count, enriched_count>>
    /\ UNCHANGED <<tmVars, reqVars, p1Vars, enVars, poolVars, saVars>>

\* The same iteration when bulk_insert_repositories raises: the statement
\* stores nothing, save_repositories_batch returns 0 (lines 251-253) and the
\* list is emptied all the same.
TaskResultSaveFails(w) ==
    /\ cpc = "collecting"
    /\ w \in SearchTasksSubmitted \ handled
    /\ wpc[w] = "done"
    /\ ReachedThreshold(all_repositories \o repositories[w])
    /\ upserted' = Passed(upserted, all_repositories \o repositories[w])
    /\ total_collected' =
         total_collected + SavedOnError(all_repositories \o repositories[w])
    /\ all_repositories' = <<>>
    /\ completed_tasks' = completed_tasks + 1
    /\ handled' = handled \cup {w}
    /\ UNCHANGED cpc
    /\ UNCHANGED <<tmVars, reqVars, p1Vars, dbVars, enVars, poolVars, saVars>>

\* The iteration for a future that holds an exception, lines 318 and
\* 332-334: future.result() raises it, the task is logged and counted.
TaskRaised(w) ==
    /\ cpc = "collecting"
    /\ w \in SearchTasksSubmitted \ handled
    /\ wpc[w] = "raised"
    /\ completed_tasks' = CountFailedTask(completed_tasks)
    /\ handled' = handled \cup {w}
    /\ UNCHANGED <<all_repositories, total_collected, upserted, cpc>>
    /\ UNCHANGED <<tmVars, reqVars, p1Vars, dbVars, enVars, poolVars, saVars>>

\* Lines 336-354 after the last future: the rest of the list is saved and
\* total_collected is returned.
FinalSave ==
    /\ cpc = "collecting"
    /\ handled = SearchTasksSubmitted
    /\ all_repositories # <<>>
    /\ ~CardinalityViolation(all_repositories)
    /\ rows' = UpsertAll(rows, all_repositories)
    /\ total_collected' = total_collected + RowCount(Len(all_repositories))
    /\ upserted' = Passed(upserted, all_repositories)
    /\ cpc' = "returned"
    /\ UNCHANGED <<handled, all_repositories, completed_tasks>>
    /\ UNCHANGED <<candidates, pending, cutoff_date, skip_forks, p2pc,
                   completed_count, failed_count, enriched_count>>
    /\ UNCHANGED <<tmVars, reqVars, p1Vars, enVars, poolVars, saVars>>

\* The same when bulk_insert_repositories raises: 0 is added.
FinalSaveFails ==
    /\ cpc = "collecting"
    /\ handled = SearchTasksSubmitted
    /\ all_repositories # <<>>
    /\ upserted' = Passed(upserted, all_repositories)
    /\ total_collected' = total_collected + SavedOnError(all_repositories)
    /\ cpc' = "returned"
    /\ UNCHANGED <<handled, all_repositories, completed_tasks>>
    /\ UNCHANGED <<tmVars, reqVars, p1Vars, dbVars, enVars, poolVars, saVars>>

\* Line 337 finds the list empty: total_collected is returned.
ReturnTotalCollected ==
    /\ cpc = "collecting"
    /\ handled = SearchTasksSubmitted
    /\ all_repositories = <<>>
    /\ cpc' = "returned"
    /\ UNCHANGED <<handled, all_repositories, completed_tasks, total_collected, upserted>>
    /\ UNCHANGED <<tmVars, reqVars, p1Vars, dbVars, enVars, poolVars, saVars>>

\* A KeyboardInterrupt reaches the main thread inside the with block of
\* lines 307-334. It is no Exception, so the except of line 332 does not
\* catch it and the as_completed loop is left.
KeyboardInterrupt ==
    /\ cpc = "collecting"
    /\ cpc' = "interrupted"
    /\ UNCHANGED <<handled, all_repositories, completed_tasks, total_collected, upserted>>
    /\ UNCHANGED <<tmVars, reqVars, p1Vars, dbVars, enVars, poolVars, saVars>>

\* The with block is left through ThreadPoolExecutor.__exit__, which waits
\* for every submitted task; then the interrupt leaves
\* collect_all_basic_repos past lines 336-340 and main ends the process
\* (main.py:209-211, sys.exit(1)).
ExitOnInterrupt ==
    /\ cpc = "interrupted"
    /\ \A w \in SearchTasksSubmitted : wpc[w] \in {"done", "raised"}
    /\ cpc' = "exited"
    /\ UNCHANGED <<handled, all_repositories, completed_tasks, total_collected, upserted>>
    /\ UNCHANGED <<tmVars, reqVars, p1Vars, dbVars, enVars, poolVars, saVars>>

NextCol ==
    \/ \E w \in Threads : FutureReturns(w)
    \/ \E w \in Threads : FutureRaises(w)
    \/ \E w \in Threads : TaskResult(w)
    \/ \E w \in Threads : TaskResultSaved(w)
    \/ \E w \in Threads : TaskResultSaveFails(w)
    \/ \E w \in Threads : TaskRaised(w)
    \/ FinalSave
    \/ FinalSaveFails
    \/ ReturnTotalCollected
    \/ KeyboardInterrupt
    \/ ExitOnInterrupt

SpecCol == InitCol /\ [][NextCol]_vars

\* collect_all_basic_repos has submitted its tasks (lines 309-312) and waits
\* in as_completed for the first future: the workers run side by side, each
\* on a task of one file type or topic.
InitWorkers ==
    /\ collected_repos = {}
    /\ task = [w \in Threads |-> [nfacets |-> 1]]
    /\ fi = [w \in Threads |-> 0]
    /\ page = [w \in Threads |-> 1]
    /\ left = [w \in Threads |-> 0]
    /\ repositories = [w \in Threads |-> <<>>]
    /\ wpc = [w \in Threads |-> "for_facet"]
    /\ offered = [w \in Threads |-> {}]
    /\ refused = {}
    /\ requested = [w \in Threads |-> <<>>]
    /\ handled = {}
    /\ all_repositories = <<>>
    /\ completed_tasks = 0
    /\ total_collected = 0
    /\ upserted = <<>>
    /\ cpc = "collecting"
    /\ TMIdle
    /\ ReqIdle
    /\ DBIdle
    /\ EnIdle
    /\ PoolIdle
    /\ SAIdle

SpecWorkers == InitWorkers /\ [][NextP1]_vars

\* The task of the run that follows one discovery task from its first
\* request to the table.
TheTask == "w1"

\* collect_all_basic_repos has submitted one task; the table is empty.
InitE2E ==
    /\ collected_repos = {}
    /\ \E t \in SearchTasks : task = [w \in Threads |-> t]
    /\ fi = [w \in Threads |-> 0]
    /\ page = [w \in Threads |-> 1]
    /\ left = [w \in Threads |-> 0]
    /\ repositories = [w \in Threads |-> <<>>]
    /\ wpc = [w \in Threads |-> IF w = TheTask THEN "for_facet" ELSE "off"]
    /\ offered = [w \in Threads |-> {}]
    /\ refused = {}
    /\ requested = [w \in Threads |-> <<>>]
    /\ handled = {}
    /\ all_repositories = <<>>
    /\ completed_tasks = 0
    /\ total_collected = 0
    /\ upserted = <<>>
    /\ cpc = "collecting"
    /\ TMIdle
    /\ ReqIdle
    /\ DBIdle
    /\ EnIdle
    /\ PoolIdle
    /\ SAIdle

NextE2E ==
    \/ WorkerStep(TheTask)
    \/ TaskResult(TheTask)
    \/ TaskResultSaved(TheTask)
    \/ TaskResultSaveFails(TheTask)
    \/ FinalSave
    \/ FinalSaveFails
    \/ ReturnTotalCollected

SpecE2E == InitE2E /\ [][NextE2E]_vars

\* ======================================================================
\*  Phase2Enricher.get_repository_languages (app/phases/phase2.py:92-126)
\* ======================================================================
\* A value that may be absent (Python's None, SQL's NULL) is a sequence of
\* at most one element.
Nothing == <<>>
Some(x) == <<x>>

MaxBytes == 3             \* a language has 0..MaxBytes bytes of code
PercentScale == 100       \* phase2.py:112, (bytes_count / total_bytes) * 100
HundredthsPerUnit == 100  \* phase2.py:115, round(percentage, 2): two decimals

\* The languages endpoint answers with a JSON object language -> bytes; the
\* object is the sequence of its <<name, bytes>> pairs in the order the
\* response lists them, which is the order a Python dict iterates over.
LanguageNames == {"A", "B", "C"}

\* The bodies of the model: up to three languages with byte counts in
\* 0..MaxBytes, and the object {A: 300, B: 100}.
LanguageBodies ==
    UNION {{b \in [1..n -> LanguageNames \X (0..MaxBytes)] :
               \A i, j \in 1..n : i # j => b[i][1] # b[j][1]} : n \in 0..Cardinality(LanguageNames)}
    \cup {<<<<"A", 300>>, <<"B", 100>>>>}

\* sum(languages.values()), line 106.
RECURSIVE SumBytes(_)
SumBytes(body) ==
    IF body = <<>> THEN 0 ELSE body[1][2] + SumBytes(Tail(body))

MainLanguageFirst(body) == body[1][1]

\* max(languages.items(), key=lambda x: x[1])[0], line 107: max returns the
\* first of the items with the largest byte count.
MainLanguage(body) ==
    LET i == CHOOSE i \in 1..Len(body) :
                 /\ \A j \in 1..Len(body) : body[j][2] <= body[i][2]
                 /\ \A j \in 1..(i - 1) : body[j][2] < body[i][2]
    IN body[i][1]

\* round((bytes_count / total_bytes) * 100, 2), lines 112 and 115, in
\* hundredths of a percent. round() rounds to the nearest hundredth and
\* a value half-way between two to the even one.
Percentage(bytes_count, total_bytes) ==
    LET scaled == bytes_count * PercentScale * HundredthsPerUnit
        q == scaled \div total_bytes
        r == scaled % total_bytes
    IN IF 2 * r < total_bytes THEN q
       ELSE IF 2 * r > total_bytes THEN q + 1
       ELSE IF q % 2 = 0 THEN q ELSE q + 1

\* language_stats, lines 110-116: language -> bytes and percentage.
LanguageStats(body) ==
    [lang \in {body[i][1] : i \in 1..Len(body)} |->
        LET i == CHOOSE i \in 1..Len(body) : body[i][1] = lang
        IN [bytes |-> body[i][2],
            percentage |-> Percentage(body[i][2], SumBytes(body))]]

\* get_repository_languages once the response is there, lines 100-126: an
\* empty object gives None (lines 102-103); byte counts that add up to zero
\* make line 112 raise ZeroDivisionError, which the except of line 124
\* turns into None.
GetRepositoryLanguages(body) ==
    IF body = <<>> THEN Nothing
    ELSE IF SumBytes(body) = 0 THEN Nothing
    ELSE Some([main_language |-> MainLanguage(body),
               language_stats |-> LanguageStats(body),
               total_code_bytes |-> SumBytes(body)])

\* The response carries one of the bodies of the model.
InitLang ==
    /\ languages \in LanguageBodies
    /\ language_data = Nothing
    /\ lpc = "called"
    /\ epc = "off"
    /\ target = 0
    /\ enrichment_data = <<>>
    /\ activity_data = <<>>
    /\ fetched = <<>>
    /\ update_fields = <<>>
    /\ updates_issued = 0
    /\ worker_result = <<>>
    /\ TMIdle
    /\ ReqIdle
    /\ P1Idle
    /\ DBIdle
    /\ ColIdle
    /\ PoolIdle
    /\ SAIdle

\* get_repository_languages returns.
LanguagesReturn ==
    /\ lpc = "called"
    /\ language_data' = GetRepositoryLanguages(languages)
    /\ lpc' = "returned"
    /\ UNCHANGED <<epc, target, enrichment_data, activity_data, fetched, update_fields,
                   updates_issued, worker_result, languages>>
    /\ UNCHANGED <<tmVars, reqVars, p1Vars, dbVars, colVars, poolVars, saVars>>

NextLang == LanguagesReturn

SpecLang == InitLang /\ [][NextLang]_vars

\* ======================================================================
\*  Phase2Enricher.enrich_repository_worker and the fetches it makes
\*  (app/phases/phase2.py:128-230, 306-371)
\* ======================================================================
\* What thread_safe_request hands to a fetch: no response (the client gave
\* up after its retries, the resource does not exist, or the call raised,
\* phase2.py:49-57), or a response whose body is not JSON ("invalid"), is
\* a JSON object, or is a JSON list; for the commits request also a
\* response whose Link header names a last page ("linked", items = the page
\* number) or names one that int() cannot read ("badlink").
Response(kind, items) == [kind |-> kind, items |-> items]
NoReply == Response("none", <<>>)

LanguagesResponses ==
    {NoReply, Response("invalid", <<>>),
     Response("object", <<>>), Response("object", <<<<"A", 300>>, <<"B", 100>>>>)}
ContributorsResponses ==
    {NoReply, Response("invalid", <<>>),
     Response("list", <<>>), Response("list", <<"octocat">>)}
CommitsResponses ==
    {NoReply, Response("invalid", <<>>), Response("object", <<"message">>),
     Response("linked", <<2>>), Response("badlink", <<>>), Response("list", <<"c1">>)}
BranchesResponses ==
    {NoReply, Response("invalid", <<>>), Response("list", <<"main">>)}
ReleasesResponses ==
    {NoReply, Response("invalid", <<>>), Response("object", <<"message">>),
     Response("list", <<>>), Response("list", <<"v1">>)}
ReadmeResponses ==
    {NoReply, Response("invalid", <<>>), Response("object", <<>>),
     Response("object", <<"text">>)}

\* A Python dict is a function from its keys; {} is the empty one.
EmptyDict == <<>>

\* dict.update and d[k] = v: the entries of the second argument win.
Update(d, e) == e @@ d

\* The values of a dict as values that may be absent.
Wrap(d) == [k \in DOMAIN d |-> Some(d[k])]

\* get_repository_languages for a response, lines 96-126: a body that is
\* not an object makes languages.values() raise, which gives None.
LanguagesFetch(resp) ==
    IF resp.kind # "object" THEN Nothing
    ELSE IF GetRepositoryLanguages(resp.items) = Nothing THEN Nothing
    ELSE Some(Wrap(GetRepositoryLanguages(resp.items)[1]))

\* get_repository_contributors, lines 132-151.
GetRepositoryContributors(resp) ==
    IF resp.kind # "list" \/ resp.items = <<>> THEN Nothing
    ELSE Some([contributors_count |-> Some(Len(resp.items)),
               top_contributor |-> Some(resp.items[1])])

\* get_repository_activity, the commits request, lines 158-176: without a
\* response nothing is recorded; otherwise commits_count is recorded, as
\* None when the page number or the body cannot be read or is not a list.
CommitsCount(data, resp) ==
    IF resp.kind = "none" THEN data
    ELSE IF resp.kind = "linked" THEN Update(data, [commits_count |-> Some(resp.items[1])])
    ELSE IF resp.kind = "list" THEN Update(data, [commits_count |-> Some(Len(resp.items))])
    ELSE Update(data, [commits_count |-> Nothing])

\* ... the branches request, lines 179-187.
BranchesCount(data, resp) ==
    IF resp.kind = "none" THEN data
    ELSE IF resp.kind = "list" THEN Update(data, [branches_count |-> Some(Len(resp.items))])
    ELSE Update(data, [branches_count |-> Nothing])

\* ... the releases request, lines 190-205: a list gives its length and the
\* tag of its first element, None when the list is empty.
ReleasesCount(data, resp) ==
    IF resp.kind = "none" THEN data
    ELSE IF resp.kind = "list"
         THEN Update(data, [releases_count |-> Some(Len(resp.items)),
                            latest_release_tag |->
                                IF resp.items # <<>> THEN Some(resp.items[1]) ELSE Nothing])
    ELSE Update(data, [releases_count |-> Nothing, latest_release_tag |-> Nothing])

\* return activity_data if activity_data else None, line 207.
ActivityResult(data) == IF DOMAIN data = {} THEN Nothing ELSE Some(data)

\* get_repository_readme, lines 213-230: the decoded content, None when it
\* is empty or cannot be read.
GetRepositoryReadme(resp) ==
    IF resp.kind # "object" \/ resp.items = <<>> THEN Nothing
    ELSE Some(resp.items[1])

\* if data: enrichment_data.update(data), lines 317-329.
Merge(enrichment, res) ==
    IF res = Nothing THEN enrichment ELSE Update(enrichment, res[1])

\* The columns of the table a Phase-1 upsert writes (those the model keeps),
\* the columns Phase 2 fills, and the two Phase-2 markers.
BasicColumns == {"stargazers_count", "description", "fork", "created_at", "phase1_completed"}
EnrichmentColumns ==
    {"main_language", "language_stats", "total_code_bytes", "contributors_count",
     "top_contributor", "commits_count", "branches_count", "releases_count",
     "latest_release_tag", "readme_content"}
MarkerColumns == {"phase2_completed", "phase2_completed_at"}

SetListUnmarked(enrichment) == enrichment

\* The SET list, lines 337-351: every entry of enrichment_data but
\* github_id, then phase2_completed = True and phase2_completed_at = now.
SetList(enrichment) ==
    Update(enrichment, [phase2_completed |-> TRUE, phase2_completed_at |-> Some("now")])

\* UPDATE repositories SET ... WHERE github_id = %s, lines 354-360: the
\* columns of the SET list take the new values, the others keep theirs.
ExecuteUpdateClears(table, g, fields) ==
    IF g \in DOMAIN table
    THEN [table EXCEPT ![g] = [c \in DOMAIN table[g] \cup DOMAIN fields |->
                                  IF c \in DOMAIN fields THEN fields[c]
                                  ELSE IF c = "description" THEN NoDescription
                                  ELSE table[g][c]]]
    ELSE table

ExecuteUpdate(table, g, fields) ==
    IF g \in DOMAIN table
    THEN [table EXCEPT ![g] = [c \in DOMAIN table[g] \cup DOMAIN fields |->
                                  IF c \in DOMAIN fields THEN fields[c] ELSE table[g][c]]]
    ELSE table

\* cursor.rowcount of that statement, database.py:70-75.
RowsUpdated(table, g) == IF g \in DOMAIN table THEN 1 ELSE 0

\* The repository the workers of this machine enrich.
EnrichedIds == {1}

\* What the search said about it: a repository with just enough stars that
\* is not a fork, created on any of the days of the model.
EnrichedItems(g) ==
    {item \in ApiItems(g) : /\ item.stargazers_count = PHASE2_MIN_STARS
                            /\ item.fork = FALSE
                            /\ item.description # NoDescription}

\* The table holds one repository that Phase 1 stored, and no run is under
\* way.
InitEnrich ==
    /\ \E g \in EnrichedIds : \E item \in EnrichedItems(g) :
         rows = (g :> InsertedRow(ExtractAllBasicFields(item)))
    /\ candidates = <<>>
    /\ pending = {}
    /\ cutoff_date = 0
    /\ skip_forks = TRUE
    /\ p2pc = "idle"
    /\ completed_count = 0
    /\ failed_count = 0
    /\ enriched_count = 0
    /\ EnIdle
    /\ TMIdle
    /\ ReqIdle
    /\ P1Idle
    /\ ColIdle
    /\ PoolIdle
    /\ SAIdle

\* enrich_repository_worker is called for candidate g, lines 306-314. The
\* workers of one run touch different rows; they are taken one at a time.
WorkerStarts(g) ==
    /\ p2pc = "running"
    /\ g \in pending
    /\ epc \in {"off", "returned"}
    /\ epc' = "languages"
    /\ target' = g
    /\ enrichment_data' = EmptyDict
    /\ activity_data' = EmptyDict
    /\ fetched' = EmptyDict
    /\ update_fields' = EmptyDict
    /\ updates_issued' = 0
    /\ worker_result' = Nothing
    /\ UNCHANGED <<languages, language_data, lpc>>
    /\ UNCHANGED <<tmVars, reqVars, p1Vars, dbVars, colVars, poolVars, saVars>>

\* Lines 316-319: the languages fetch and its merge.
FetchLanguages ==
    /\ epc = "languages"
    /\ \E resp \in LanguagesResponses :
         /\ fetched' = Update(fetched, [languages |-> resp])
         /\ enrichment_data' = Merge(enrichment_data, LanguagesFetch(resp))
    /\ epc' = "contributors"
    /\ UNCHANGED <<target, activity_data, update_fields, updates_issued, worker_result,
                   languages, language_data, lpc>>
    /\ UNCHANGED <<tmVars, reqVars, p1Vars, dbVars, colVars, poolVars, saVars>>

\* Lines 321-324: the contributors fetch and its merge.
FetchContributors ==
    /\ epc = "contributors"
    /\ \E resp \in ContributorsResponses :
         /\ fetched' = Update(fetched, [contributors |-> resp])
         /\ enrichment_data' = Merge(enrichment_data, GetRepositoryContributors(resp))
    /\ epc' = "commits"
    /\ UNCHANGED <<target, activity_data, update_fields, updates_issued, worker_result,
                   languages, language_data, lpc>>
    /\ UNCHANGED <<tmVars, reqVars, p1Vars, dbVars, colVars, poolVars, saVars>>

\* get_repository_activity, lines 155-176: the commits request.
FetchCommits ==
    /\ epc = "commits"
    /\ \E resp \in CommitsResponses :
         /\ fetched' = Update(fetched, [commits |-> resp])
         /\ activity_data' = CommitsCount(EmptyDict, resp)
    /\ epc' = "branches"
    /\ UNCHANGED <<target, enrichment_data, update_fields, updates_issued, worker_result,
                   languages, language_data, lpc>>
    /\ UNCHANGED <<tmVars, reqVars, p1Vars, dbVars, colVars, poolVars, saVars>>

\* Lines 178-187: the branches request.
FetchBranches ==
    /\ epc = "branches"
    /\ \E resp \in BranchesResponses :
         /\ fetched' = Update(fetched, [branches |-> resp])
         /\ activity_data' = BranchesCount(activity_data, resp)
    /\ epc' = "releases"
    /\ UNCHANGED <<target, enrichment_data, update_fields, updates_issued, worker_result,
                   languages, language_data, lpc>>
    /\ UNCHANGED <<tmVars, reqVars, p1Vars, dbVars, colVars, poolVars, saVars>>

\* Lines 189-207 and 326-329: the releases request, the return of
\* get_repository_activity and the merge of what it returned.
FetchReleases ==
    /\ epc = "releases"
    /\ \E resp \in ReleasesResponses :
         /\ fetched' = Update(fetched, [releases |-> resp])
         /\ activity_data' = ReleasesCount(activity_data, resp)
         /\ enrichment_data' =
              Merge(enrichment_data, ActivityResult(ReleasesCount(activity_data, resp)))
    /\ epc' = "readme"
    /\ UNCHANGED <<target, update_fields, updates_issued, worker_result,
                   languages, language_data, lpc>>
    /\ UNCHANGED <<tmVars, reqVars, p1Vars, dbVars, colVars, poolVars, saVars>>

\* Lines 331-334: the README fetch and its merge.
FetchReadme ==
    /\ epc = "readme"
    /\ \E resp \in ReadmeResponses :
         /\ fetched' = Update(fetched, [readme |-> resp])
         /\ enrichment_data' =
              IF GetRepositoryReadme(resp) = Nothing THEN enrichment_data
              ELSE Update(enrichment_data, [readme_content |-> GetRepositoryReadme(resp)])
    /\ epc' = "update"
    /\ UNCHANGED <<target, activity_data, update_fields, updates_issued, worker_result,
                   languages, language_data, lpc>>
    /\ UNCHANGED <<tmVars, reqVars, p1Vars, dbVars, colVars, poolVars, saVars>>

\* Lines 336-368: the UPDATE is built and executed, and the worker returns
\* whether it changed a row; enrich_repositories counts the result
\* (lines 401-408).
UpdateRepository ==
    /\ epc = "update"
    /\ update_fields' = SetList(enrichment_data)
    /\ updates_issued' = updates_issued + 1
    /\ rows' = ExecuteUpdate(rows, target, SetList(enrichment_data))
    /\ worker_result' = Some(RowsUpdated(rows, target) > 0)
    /\ IF RowsUpdated(rows, target) > 0
       THEN completed_count' = CountCompleted(completed_count) /\ UNCHANGED failed_count
       ELSE failed_count' = CountFailed(failed_count) /\ UNCHANGED completed_count
    /\ pending' = pending \ {target}
    /\ epc' = "returned"
    /\ UNCHANGED <<target, enrichment_data, activity_data, fetched, languages, language_data, lpc>>
    /\ UNCHANGED <<candidates, cutoff_date, skip_forks, p2pc, enriched_count>>
    /\ UNCHANGED <<tmVars, reqVars, p1Vars, colVars, poolVars, saVars>>

\* Lines 360 and 369-371: db.execute_update raises (the statement failed or
\* the connection is gone); nothing is stored and the worker returns
\* (False, full_name).
UpdateRaises ==
    /\ epc = "update"
    /\ update_fields' = SetList(enrichment_data)
    /\ updates_issued' = updates_issued + 1
    /\ worker_result' = Some(FALSE)
    /\ failed_count' = CountFailed(failed_count)
    /\ pending' = pending \ {target}
    /\ epc' = "returned"
    /\ UNCHANGED <<target, enrichment_data, activity_data, fetched, languages, language_data, lpc>>
    /\ UNCHANGED <<rows, candidates, cutoff_date, skip_forks, p2pc, completed_count, enriched_count>>
    /\ UNCHANGED <<tmVars, reqVars, p1Vars, colVars, poolVars, saVars>>

NextEnrich ==
    \/ GetRepositoriesForEnrichment
    \/ \E g \in EnrichedIds : WorkerStarts(g)
    \/ FetchLanguages
    \/ FetchContributors
    \/ FetchCommits
    \/ FetchBranches
    \/ FetchReleases
    \/ FetchReadme
    \/ UpdateRepository
    \/ UpdateRaises
    \/ EnrichRepositoriesReturns

SpecEnrich == InitEnrich /\ [][NextEnrich]_vars

\* ======================================================================
\*  The worker pools: ThreadPoolExecutor(max_workers=...) with one submit
\*  per task (phase1.py:278-312, phase2.py:393-398)
\* ======================================================================
MaxTasks           == 3   \* the scheduler creates 0..MaxTasks tasks
PHASE1_MAX_WORKERS == 2   \* size of the Phase-1 pool, from the environment
PHASE2_MAX_WORKERS == 1   \* size of the Phase-2 pool (config.py:52, from the environment)

\* The descriptions of the tasks: a Phase-1 task names its type and its
\* batch of file types or topics (phase1.py:285-302); the task of a Phase-2
\* worker is the candidate row (phase2.py:395-397).
TaskDescriptions ==
    [type : {"file_language"}, facets : {<<"f1">>, <<"f1", "f2">>}]
    \cup [type : {"topics"}, facets : {<<"t1">>}]
CandidateDescriptions == [type : {"candidate"}, facets : {<<>>}]

\* The lists of tasks a run can create.
TaskLists(descriptions) == UNION {[1..n -> descriptions] : n \in 0..MaxTasks}

\* The executor starts a thread on submit when none is idle and fewer than
\* max_workers exist.
SpawnsThreadAlways(threads, busy, limit) == TRUE

SpawnsThread(threads, busy, limit) == threads = busy /\ threads < limit

TaskAfterRunConsumed(description) == [description EXCEPT !.facets = <<>>]

\* search_worker and the search functions read the description and its
\* lists but assign to neither (phase1.py:255-267, 79, 151); the Phase-2
\* worker reads repo_info (phase2.py:308-309).
TaskAfterRun(description) == description

\* The scheduler has built its list of tasks and created the executor:
\* collect_all_basic_repos (phase1.py:278-307) or enrich_repositories
\* (phase2.py:379-393).
InitPool ==
    /\ \E phase \in {"phase1", "phase2"} :
         /\ max_workers = IF phase = "phase1" THEN PHASE1_MAX_WORKERS ELSE PHASE2_MAX_WORKERS
         /\ search_tasks \in TaskLists(IF phase = "phase1" THEN TaskDescriptions
                                       ELSE CandidateDescriptions)
    /\ work_queue = <<>>
    /\ pool_threads = 0
    /\ executing = {}
    /\ runs = [i \in 1..Len(search_tasks) |-> 0]
    /\ nsubmitted = 0
    /\ ppc = "submitting"
    /\ TMIdle
    /\ ReqIdle
    /\ P1Idle
    /\ DBIdle
    /\ ColIdle
    /\ EnIdle
    /\ SAIdle

\* executor.submit for the next task of the list (phase1.py:309-312,
\* phase2.py:395-398): the task is queued and a thread is started if needed.
Submit ==
    /\ ppc = "submitting"
    /\ nsubmitted < Len(search_tasks)
    /\ work_queue' = Append(work_queue, nsubmitted + 1)
    /\ nsubmitted' = nsubmitted + 1
    /\ pool_threads' =
         IF SpawnsThread(pool_threads, Cardinality(executing), max_workers)
         THEN pool_threads + 1 ELSE pool_threads
    /\ UNCHANGED <<search_tasks, max_workers, executing, runs, ppc>>
    /\ UNCHANGED <<tmVars, reqVars, p1Vars, dbVars, colVars, enVars, saVars>>

\* Every task has been submitted; the scheduler enters its as_completed
\* loop (phase1.py:315, phase2.py:401).
AllSubmitted ==
    /\ ppc = "submitting"
    /\ nsubmitted = Len(search_tasks)
    /\ ppc' = "waiting"
    /\ UNCHANGED <<search_tasks, max_workers, work_queue, pool_threads, executing, runs, nsubmitted>>
    /\ UNCHANGED <<tmVars, reqVars, p1Vars, dbVars, colVars, enVars, saVars>>

\* An idle thread of the pool takes the oldest queued task and calls
\* search_worker (enrich_repository_worker) with it.
WorkerTakes ==
    /\ work_queue # <<>>
    /\ Cardinality(executing) < pool_threads
    /\ executing' = executing \cup {Head(work_queue)}
    /\ runs' = [runs EXCEPT ![Head(work_queue)] = @ + 1]
    /\ work_queue' = Tail(work_queue)
    /\ UNCHANGED <<search_tasks, max_workers, pool_threads, nsubmitted, ppc>>
    /\ UNCHANGED <<tmVars, reqVars, p1Vars, dbVars, colVars, enVars, saVars>>

\* The call returns or raises; the thread is idle again.
WorkerFinishes(i) ==
    /\ i \in executing
    /\ executing' = executing \ {i}
    /\ search_tasks' = [search_tasks EXCEPT ![i] = TaskAfterRun(@)]
    /\ UNCHANGED <<max_workers, work_queue, pool_threads, runs, nsubmitted, ppc>>
    /\ UNCHANGED <<tmVars, reqVars, p1Vars, dbVars, colVars, enVars, saVars>>

\* The as_completed loop has seen every future and the with block is left
\* (shutdown(wait=True)).
PoolShutdown ==
    /\ ppc = "waiting"
    /\ work_queue = <<>>
    /\ executing = {}
    /\ ppc' = "done"
    /\ UNCHANGED <<search_tasks, max_workers, work_queue, pool_threads, executing, runs, nsubmitted>>
    /\ UNCHANGED <<tmVars, reqVars, p1Vars, dbVars, colVars, enVars, saVars>>

NextPool ==
    \/ Submit
    \/ AllSubmitted
    \/ WorkerTakes
    \/ \E i \in 1..MaxTasks : WorkerFinishes(i)
    \/ PoolShutdown

SpecPool == InitPool /\ [][NextPool]_vars

\* ======================================================================
\*  GitHubCollector._make_github_request of the standalone collectors
\*  (scrapv3.py:298-323, scrapv2.1.py:293-318)
\* ======================================================================

RecursionLimit == 3   \* the frames of _make_github_request the interpreter's
                      \* recursion limit leaves room for, beyond the first
MaxResetAhead  == 2   \* X-RateLimit-Reset lies at most this far past the minimum wait
MinWaitTime    == 60  \* scrapv3.py:310, max(reset_time - current_time, 60)

\* int(response.headers.get('X-RateLimit-Reset', 0)), line 308: 0 when the
\* header is absent, else a time after t.
ResetHeaders(t) == {0} \cup {t + MinWaitTime + d : d \in 1..MaxResetAhead}

\* wait_time of line 310.
SleepTime(reset_time, current_time) == Max(reset_time - current_time, MinWaitTime)

\* A caller has just called _make_github_request(url, params).
InitSAReq ==
    /\ spc = "get"
    /\ call_depth = 0
    /\ api_calls = 0
    /\ clock \in 0..MaxTime
    /\ sleep_for = 0
    /\ reply = "pending"
    /\ gpc = "off"
    /\ file_i = 0
    /\ stored_ids = {}
    /\ processed_repos = {}
    /\ found = <<>>
    /\ saving = 0
    /\ at_startup = {}
    /\ times_processed = <<>>
    /\ times_saved = <<>>
    /\ failures = {}
    /\ loaded = FALSE
    /\ TMIdle
    /\ ReqIdle
    /\ P1Idle
    /\ DBIdle
    /\ ColIdle
    /\ EnIdle
    /\ PoolIdle

\* Lines 301-305: the request is counted and answered with 200; every frame
\* returns the body.
Get200 ==
    /\ spc = "get"
    /\ api_calls' = api_calls + 1
    /\ reply' = "json"
    /\ call_depth' = 0
    /\ spc' = "returned"
    /\ UNCHANGED <<clock, sleep_for, gpc, file_i, stored_ids, processed_repos, found,
                   saving, at_startup, times_processed, times_saved, failures, loaded>>
    /\ UNCHANGED <<tmVars, reqVars, p1Vars, dbVars, colVars, enVars, poolVars>>

\* Lines 306-312: the answer is 403; wait_time is computed and the call
\* goes to sleep.
Get403 ==
    /\ spc = "get"
    /\ api_calls' = api_calls + 1
    /\ \E reset_time \in ResetHeaders(clock) :
         sleep_for' = SleepTime(reset_time, clock)
    /\ spc' = "sleep"
    /\ UNCHANGED <<call_depth, clock, reply, gpc, file_i, stored_ids, processed_repos,
                   found, saving, at_startup, times_processed, times_saved, failures, loaded>>
    /\ UNCHANGED <<tmVars, reqVars, p1Vars, dbVars, colVars, enVars, poolVars>>

\* Lines 314-323: status 422, any other status, or a RequestException from
\* session.get: None is returned.
GetFails ==
    /\ spc = "get"
    /\ api_calls' = api_calls + 1
    /\ reply' = "none"
    /\ call_depth' = 0
    /\ spc' = "returned"
    /\ UNCHANGED <<clock, sleep_for, gpc, file_i, stored_ids, processed_repos, found,
                   saving, at_startup, times_processed, times_saved, failures, loaded>>
    /\ UNCHANGED <<tmVars, reqVars, p1Vars, dbVars, colVars, enVars, poolVars>>

\* Line 313: time.sleep returns and the function calls itself with the same
\* arguments, one frame deeper.
Retry ==
    /\ spc = "sleep"
    /\ call_depth < RecursionLimit
    /\ clock' = clock + sleep_for
    /\ sleep_for' = 0
    /\ call_depth' = call_depth + 1
    /\ spc' = "get"
    /\ UNCHANGED <<api_calls, reply, gpc, file_i, stored_ids, processed_repos, found,
                   saving, at_startup, times_processed, times_saved, failures, loaded>>
    /\ UNCHANGED <<tmVars, reqVars, p1Vars, dbVars, colVars, enVars, poolVars>>

\* Line 313 when no frame is left: the call raises RecursionError, which is
\* no RequestException (line 321) and leaves every frame.
RetryOverflows ==
    /\ spc = "sleep"
    /\ call_depth = RecursionLimit
    /\ clock' = clock + sleep_for
    /\ sleep_for' = 0
    /\ call_depth' = 0
    /\ reply' = "RecursionError"
    /\ spc' = "raised"
    /\ UNCHANGED <<api_calls, gpc, file_i, stored_ids, processed_repos, found,
                   saving, at_startup, times_processed, times_saved, failures, loaded>>
    /\ UNCHANGED <<tmVars, reqVars, p1Vars, dbVars, colVars, enVars, poolVars>>

NextSAReq ==
    \/ Get200
    \/ Get403
    \/ GetFails
    \/ Retry
    \/ RetryOverflows

SpecSAReq == InitSAReq /\ [][NextSAReq]_vars

\* ======================================================================
\*  GitHubCollector, the standalone collector: _load_processed_repos,
\*  run_collection_cycle, search_repositories_by_file, process_repository,
\*  save_repository_data (scrapv3.py; scrapv2.1.py has the same functions)
\* ======================================================================

MaxRepoId == 2   \* repository ids 1..MaxRepoId
MaxFiles  == 2   \* len(TARGET_FILES)
MaxFound  == 2   \* a search returns at most this many entries

RepoIds == 1..MaxRepoId

\* What search_repositories_by_file(filename) can return (lines 325-388):
\* one entry per item of the pages whose repository passes the quality
\* filters and is not in processed_repos (line 372). Nothing removes a
\* repository that several items name, so an id can occur more than once.
SearchResults(processed) ==
    UNION {[1..n -> RepoIds \ processed] : n \in 0..MaxFound}

\* Line 441: process_repository returns None at once for such an id.
AlreadyProcessed(repo_id, processed) == repo_id \in processed

\* __init__ has run up to line 126: the table exists (lines 147-215) with
\* the rows earlier processes left; processed_repos is the empty set of
\* line 120.
InitSA ==
    /\ gpc = "init"
    /\ stored_ids \in SUBSET RepoIds
    /\ at_startup = stored_ids
    /\ processed_repos = {}
    /\ file_i = 0
    /\ found = <<>>
    /\ saving = 0
    /\ times_processed = [r \in RepoIds |-> 0]
    /\ times_saved = [r \in RepoIds |-> 0]
    /\ failures = {}
    /\ loaded = FALSE
    /\ spc = "off"
    /\ call_depth = 0
    /\ api_calls = 0
    /\ clock = 0
    /\ sleep_for = 0
    /\ reply = "pending"
    /\ TMIdle
    /\ ReqIdle
    /\ P1Idle
    /\ DBIdle
    /\ ColIdle
    /\ EnIdle
    /\ PoolIdle

\* _load_processed_repos, lines 291-294: the ids of the table become
\* processed_repos; run_continuous then enters its loop (line 732).
LoadProcessedRepos ==
    /\ gpc = "init"
    /\ processed_repos' = stored_ids
    /\ loaded' = TRUE
    /\ gpc' = "files"
    /\ UNCHANGED <<spc, call_depth, api_calls, clock, sleep_for, reply, file_i,
                   stored_ids, found, saving, at_startup, times_processed,
                   times_saved, failures>>
    /\ UNCHANGED <<tmVars, reqVars, p1Vars, dbVars, colVars, enVars, poolVars>>

\* _load_processed_repos, lines 295-296: the SELECT raises; the error is
\* logged and processed_repos stays empty.
LoadRaises ==
    /\ gpc = "init"
    /\ gpc' = "files"
    /\ UNCHANGED <<spc, call_depth, api_calls, clock, sleep_for, reply, file_i,
                   stored_ids, processed_repos, found, saving, at_startup,
                   times_processed, times_saved, failures, loaded>>
    /\ UNCHANGED <<tmVars, reqVars, p1Vars, dbVars, colVars, enVars, poolVars>>

\* run_collection_cycle, lines 706-708: the next file of TARGET_FILES is
\* searched.
SearchFile ==
    /\ gpc = "files"
    /\ file_i < MaxFiles
    /\ file_i' = file_i + 1
    /\ found' \in SearchResults(processed_repos)
    /\ gpc' = "repos"
    /\ UNCHANGED <<spc, call_depth, api_calls, clock, sleep_for, reply, stored_ids,
                   processed_repos, saving, at_startup, times_processed,
                   times_saved, failures, loaded>>
    /\ UNCHANGED <<tmVars, reqVars, p1Vars, dbVars, colVars, enVars, poolVars>>

\* process_repository, lines 440-442: the id is in processed_repos.
ProcessSkips ==
    /\ gpc = "repos"
    /\ found # <<>>
    /\ AlreadyProcessed(Head(found), processed_repos)
    /\ found' = Tail(found)
    /\ UNCHANGED <<spc, call_depth, api_calls, clock, sleep_for, reply, gpc, file_i,
                   stored_ids, processed_repos, saving, at_startup, times_processed,
                   times_saved, failures, loaded>>
    /\ UNCHANGED <<tmVars, reqVars, p1Vars, dbVars, colVars, enVars, poolVars>>

\* process_repository, lines 444-453 and 509-511: no full_name, no details,
\* or an exception; None is returned and the id is not added.
ProcessFails ==
    /\ gpc = "repos"
    /\ found # <<>>
    /\ ~AlreadyProcessed(Head(found), processed_repos)
    /\ failures' = failures \cup {Head(found)}
    /\ found' = Tail(found)
    /\ UNCHANGED <<spc, call_depth, api_calls, clock, sleep_for, reply, gpc, file_i,
                   stored_ids, processed_repos, saving, at_startup, times_processed,
                   times_saved, loaded>>
    /\ UNCHANGED <<tmVars, reqVars, p1Vars, dbVars, colVars, enVars, poolVars>>

\* process_repository, lines 455-507: the record is built, the id is added
\* to processed_repos (line 505) and the record is returned;
\* run_collection_cycle goes on to save it (lines 711-712).
ProcessReturns ==
    /\ gpc = "repos"
    /\ found # <<>>
    /\ ~AlreadyProcessed(Head(found), processed_repos)
    /\ processed_repos' = processed_repos \cup {Head(found)}
    /\ times_processed' = [times_processed EXCEPT ![Head(found)] = @ + 1]
    /\ saving' = Head(found)
    /\ found' = Tail(found)
    /\ gpc' = "save"
    /\ UNCHANGED <<spc, call_depth, api_calls, clock, sleep_for, reply, file_i,
                   stored_ids, at_startup, times_saved, failures, loaded>>
    /\ UNCHANGED <<tmVars, reqVars, p1Vars, dbVars, colVars, enVars, poolVars>>

\* save_repository_data, lines 515-525: INSERT OR REPLACE and commit.
SaveStores ==
    /\ gpc = "save"
    /\ stored_ids' = stored_ids \cup {saving}
    /\ times_saved' = [times_saved EXCEPT ![saving] = @ + 1]
    /\ saving' = 0
    /\ gpc' = "repos"
    /\ UNCHANGED <<spc, call_depth, api_calls, clock, sleep_for, reply, file_i,
                   processed_repos, found, at_startup, times_processed, failures,
                   loaded>>
    /\ UNCHANGED <<tmVars, reqVars, p1Vars, dbVars, colVars, enVars, poolVars>>

\* save_repository_data, lines 536-537: the INSERT or the commit raises; the
\* error is logged and nothing else is done.
SaveRaises ==
    /\ gpc = "save"
    /\ saving' = 0
    /\ gpc' = "repos"
    /\ UNCHANGED <<spc, call_depth, api_calls, clock, sleep_for, reply, file_i,
                   stored_ids, processed_repos, found, at_startup, times_processed,
                   times_saved, failures, loaded>>
    /\ UNCHANGED <<tmVars, reqVars, p1Vars, dbVars, colVars, enVars, poolVars>>

\* run_collection_cycle, line 716: every entry of the list has been handled.
FileDone ==
    /\ gpc = "repos"
    /\ found = <<>>
    /\ gpc' = "files"
    /\ UNCHANGED <<spc, call_depth, api_calls, clock, sleep_for, reply, file_i,
                   stored_ids, processed_repos, found, saving, at_startup,
                   times_processed, times_saved, failures, loaded>>
    /\ UNCHANGED <<tmVars, reqVars, p1Vars, dbVars, colVars, enVars, poolVars>>

\* run_continuous, lines 732-741: the cycle has searched every file; the
\* next cycle starts.
NextCycle ==
    /\ gpc = "files"
    /\ file_i = MaxFiles
    /\ file_i' = 0
    /\ UNCHANGED <<spc, call_depth, api_calls, clock, sleep_for, reply, gpc,
                   stored_ids, processed_repos, found, saving, at_startup,
                   times_processed, times_saved, failures, loaded>>
    /\ UNCHANGED <<tmVars, reqVars, p1Vars, dbVars, colVars, enVars, poolVars>>

NextSA ==
    \/ LoadProcessedRepos
    \/ LoadRaises
    \/ SearchFile
    \/ ProcessSkips
    \/ ProcessFails
    \/ ProcessReturns
    \/ SaveStores
    \/ SaveRaises
    \/ FileDone
    \/ NextCycle

SpecSA == InitSA /\ [][NextSA]_vars

\* ======================================================================
\*  A Phase-1 run: the discovery tasks step by step together with the
\*  as_completed loop of collect_all_basic_repos (phase1.py:269-354)
\* ======================================================================

NextRun ==
    \/ \E w \in Threads : WorkerStep(w)
    \/ \E w \in Threads : TaskResult(w)
    \/ \E w \in Threads : TaskResultSaved(w)
    \/ \E w \in Threads : TaskResultSaveFails(w)
    \/ FinalSave
    \/ FinalSaveFails
    \/ ReturnTotalCollected

SpecRun == InitWorkers /\ [][NextRun]_vars

\* ======================================================================
\*  Rediscovery: Phase-1 upserts of stored repositories between Phase-2
\*  runs (database.py:95-120 against the rows phase2.py:337-360 wrote)
\* ======================================================================

\* enrichment_data of enrich_repository_worker when it reaches its UPDATE
\* (phase2.py:313-335), from the answers to its six requests.
EnrichmentData(lang, contrib, commits, branches, releases, readme) ==
    LET e1 == Merge(EmptyDict, LanguagesFetch(lang))
        e2 == Merge(e1, GetRepositoryContributors(contrib))
        e3 == Merge(e2, ActivityResult(
                  ReleasesCount(BranchesCount(CommitsCount(EmptyDict, commits),
                                              branches), releases)))
    IN  IF GetRepositoryReadme(readme) = Nothing THEN e3
        ELSE Update(e3, [readme_content |-> GetRepositoryReadme(readme)])

\* The dicts of the workers of this machine: each request is either not
\* answered or answered with a body that has content.
WorkerDicts ==
    {EnrichmentData(lang, contrib, commits, branches, releases, readme) :
        lang \in {NoReply, Response("object", <<<<"A", 300>>, <<"B", 100>>>>)},
        contrib \in {NoReply, Response("list", <<"octocat">>)},
        commits \in {NoReply, Response("list", <<"c1">>)},
        branches \in {NoReply, Response("list", <<"main">>)},
        releases \in {NoReply, Response("list", <<"v1">>)},
        readme \in {NoReply, Response("object", <<"text">>)}}

\* enrich_repository_worker for candidate g from its call to its return
\* (phase2.py:306-368) when the UPDATE succeeds, and the count of the
\* as_completed loop (lines 404-406).
WorkerEnriches(g) ==
    /\ p2pc = "running"
    /\ g \in pending
    /\ \E e \in WorkerDicts : rows' = ExecuteUpdate(rows, g, SetList(e))
    /\ pending' = pending \ {g}
    /\ completed_count' = CountCompleted(completed_count)
    /\ UNCHANGED <<candidates, cutoff_date, skip_forks, p2pc, failed_count, enriched_count>>
    /\ UNCHANGED <<tmVars, reqVars, p1Vars, colVars, enVars, poolVars, saVars>>

\* A later Phase-1 run finds a stored repository again and
\* bulk_insert_repositories takes the ON CONFLICT branch for it
\* (database.py:106-119). main runs the phases one after the other
\* (main.py:136-142), so no enrichment run is under way.
UpsertStored ==
    /\ p2pc = "idle"
    /\ \E g \in DOMAIN rows : \E item \in ApiItems(g) :
         rows' = Upsert(rows, ExtractAllBasicFields(item))
    /\ UNCHANGED <<candidates, pending, cutoff_date, skip_forks, p2pc,
                   completed_count, failed_count, enriched_count>>
    /\ UNCHANGED <<tmVars, reqVars, p1Vars, colVars, enVars, poolVars, saVars>>

NextRediscover ==
    \/ GetRepositoriesForEnrichment
    \/ \E g \in EnrichedIds : WorkerEnriches(g)
    \/ \E g \in EnrichedIds : EnrichRepositoryWorkerFails(g)
    \/ EnrichRepositoriesReturns
    \/ UpsertStored

SpecRediscover == InitEnrich /\ [][NextRediscover]_vars

\* ======================================================================
\*  Specifications
\* ======================================================================

SpecTM == InitTM /\ [][NextTM]_vars

SpecP1 == InitP1 /\ [][NextP1]_vars

\* Threads that can take a step do, and time does not stand still.
FairSpecTM ==
    /\ SpecTM
    /\ WF_vars(Tick)
    /\ \A t \in Threads : WF_vars(SleepElapses(t))
    /\ \A t \in Threads : WF_vars(ThreadStep(t))

\* ======================================================================
\*  Claims about TokenManager
\* ======================================================================

\* The step in which get_best_token hands a token to thread t.
Returns(t) == tpc[t] # "done" /\ tpc'[t] = "done" /\ ret'[t] # None

OthersIdle(t) == \A u \in Threads \ {t} : tpc[u] = "idle"

\* C2: get_best_token never returns an inactive credential: in the step that
\* returns a token, token_stats marks that token active with remaining > 0,
\* whichever thread makes the step and whatever the other threads are doing.
C2_ReturnedTokenIsActive ==
    [][\A t \in Threads :
          Returns(t) => /\ token_stats[ret'[t]].active
                        /\ token_stats[ret'[t]].remaining > 0]_vars

\* C2 witness: a token was returned while another token, holding more
\* remaining quota, was inactive and was passed over.
C2_Witness ==
    \E t \in Threads :
        /\ tpc[t] = "done" /\ ret[t] # None /\ OthersIdle(t)
        /\ \E j \in DOMAIN token_stats :
              /\ ~token_stats[j].active
              /\ token_stats[j].remaining > token_stats[ret[t]].remaining

\* C13: with no credential configured, get_best_token hands the caller a
\* credential (an implicit unauthenticated one), never an absent one.
C13_NoTokensGivesCredential ==
    \A t \in Threads : (ntokens = 0 /\ tpc[t] = "done") => ret[t] # None

\* C3: a call that found every credential inactive and has come back from
\* _wait_for_reset (time has passed the earliest reset, or the reset was
\* already past) eventually returns a credential.
C3_RetryEventuallyReturns ==
    \A t \in Threads : (tpc[t] = "enter" /\ depth[t] > 0) ~> (tpc[t] = "done")

\* C4: a call that found every credential inactive gets past
\* _wait_for_reset, to its retry and so to any return, only once the clock
\* has reached the minimum reset_time over all credentials.
C4_NoRetryBeforeReset ==
    \A t \in Threads : depth[t] > 0 => now >= earliest[t]

\* C4 witness: a thread found no active credential while the earliest reset
\* was still ahead, slept, and is back at the retry.
C4_Witness ==
    \E t \in Threads :
        /\ depth[t] > 0 /\ tpc[t] = "enter"
        /\ wake[t] > 0 /\ earliest[t] > 0

\* C5: whenever get_best_token found no active credential, every credential
\* is marked active when selection is retried.
C5_AllActiveAtRetry ==
    \A t \in Threads :
        (tpc[t] = "enter" /\ depth[t] > 0)
            => \A i \in DOMAIN token_stats : token_stats[i].active

\* C6: the token returned is active and no active token has strictly more
\* remaining requests; among the active tokens with that many remaining it
\* is the one of lowest index.
C6_ReturnsGreatestRemaining ==
    [][\A t \in Threads :
          Returns(t) =>
            LET r == ret'[t] IN
            /\ token_stats[r].active
            /\ \A j \in DOMAIN token_stats :
                  token_stats[j].active
                      => token_stats[j].remaining <= token_stats[r].remaining
            /\ \A j \in DOMAIN token_stats :
                  (j < r /\ token_stats[j].active)
                      => token_stats[j].remaining < token_stats[r].remaining]_vars

\* C6 witness: token 0 was returned on a tie with token 1, both active.
C6_Witness ==
    \E t \in Threads :
        /\ tpc[t] = "done" /\ ret[t] = 0 /\ OthersIdle(t)
        /\ ntokens >= 2
        /\ token_stats[0].active /\ token_stats[1].active
        /\ token_stats[1].remaining = token_stats[0].remaining

\* ======================================================================
\*  Claims about make_github_request
\* ======================================================================

Last(seq) == seq[Len(seq)]

\* The outcomes the code reports as a failed request: a status other than
\* 200, 403 and 404, or a network exception.
Failing(resp) == resp.status \notin {200, 403, 404}

\* A quota-exhaustion response: 403 or 429 whose remaining-quota header is zero.
QuotaExhausted(resp) == resp.status \in {403, 429} /\ resp.remaining = "0"

\* A 403 that is not tied to quota: its remaining-quota header is not zero.
Generic403(resp) == resp.status = 403 /\ resp.remaining = "1"

\* The sleeps made on attempt k (counted from 0).
WaitsOn(k) == {j \in 1..Len(waits) : waits[j].attempt = k}

\* A response after which the code sleeps and tries again: a failed request
\* or a 403 that rate_limit_handler takes for quota exhaustion.
FailsWithWait(resp) ==
    \/ Failing(resp)
    \/ resp.status = 403 /\ resp.remaining \in {"0", "absent"}

C8_QuotaNeverSurfaced ==
    (rpc = "done" /\ result = "none" /\ responses # <<>>)
        => ~QuotaExhausted(Last(responses))

\* C9: at most max_retries HTTP attempts are made; a failed request on
\* attempt k that is not the last is followed by one sleep of 2^k seconds,
\* and a failed request on the last attempt ends the call with None and no
\* sleep.
C9_BoundedAttemptsAndBackoff ==
    /\ Len(responses) <= max_retries
    /\ \A i \in 1..Len(responses) :
          Failing(responses[i]) =>
              IF i < max_retries
              THEN /\ Cardinality(WaitsOn(i - 1)) = 1
                   /\ \A j \in WaitsOn(i - 1) : waits[j].seconds = 2 ^ (i - 1)
              ELSE /\ WaitsOn(i - 1) = {}
                   /\ rpc = "done"
                   /\ result = "none"

\* C9 witness: three failed requests with max_retries = 3: sleeps of 1 and
\* 2 seconds, then None.
C9_Witness ==
    /\ max_retries = 3 /\ Len(responses) = 3
    /\ \A i \in 1..3 : Failing(responses[i])
    /\ Len(waits) = 2 /\ waits[1].seconds = 1 /\ waits[2].seconds = 2
    /\ rpc = "done" /\ result = "none"

\* C10: a 403 whose remaining-quota header is not zero is followed by a
\* backoff sleep before the next attempt, and the attempts it takes count
\* against max_retries.
C10_Generic403BacksOff ==
    /\ Len(responses) <= max_retries
    /\ \A i \in 1..Len(responses) :
          (Generic403(responses[i]) /\ Len(responses) > i)
              => \E j \in WaitsOn(i - 1) : waits[j].seconds > 0

\* C11: a 404 ends the call at once with None, whatever attempt it arrives
\* on: it is the last response of the call, no sleep is made on its attempt
\* and the sleeps made before it are those of the earlier attempts only.
C11_NotFoundEndsCall ==
    \A i \in 1..Len(responses) :
        responses[i].status = 404
            => /\ i = Len(responses)
               /\ rpc = "done"
               /\ result = "none"
               /\ WaitsOn(i - 1) = {}
               /\ \A j \in 1..Len(waits) : waits[j].attempt < i - 1

\* C11 witness: a 404 arrived on the second of three allowed attempts, after
\* a failed request, and ended the call.
C11_Witness ==
    /\ max_retries = 3 /\ Len(responses) = 2
    /\ Failing(responses[1]) /\ responses[2].status = 404
    /\ Len(waits) = 1 /\ rpc = "done" /\ result = "none"

\* The value of the X-RateLimit-Remaining header of a response that has one.
QuotaOf(resp) == IF resp.remaining = "0" THEN 0 ELSE 1

\* C12: after every completed remote call, the pool's stored remaining quota
\* and reset time of the credential that made the call equal the values of
\* the call's X-RateLimit-Remaining and X-RateLimit-Reset headers.
C12_PoolTracksHeaders ==
    (responses # <<>> /\ Last(responses).remaining # "absent")
        => /\ token_stats[ret[Caller]].remaining = QuotaOf(Last(responses))
           /\ token_stats[ret[Caller]].reset_time = now + Last(responses).resetIn

\* ======================================================================
\*  Claims about the discovery workers
\* ======================================================================

\* C1: the list a discovery task builds, and so the list it returns, never
\* holds more than PHASE1_MAX_REPOS records and holds no github id twice,
\* whatever the pages hold and however the workers interleave.
C1_AtMostCeilingNoRepeat ==
    \A w \in Threads :
        /\ Len(repositories[w]) <= PHASE1_MAX_REPOS
        /\ NoRepeat(repositories[w])

\* C1 witness: both tasks have returned, one with a list at the ceiling,
\* the other with a non-empty list.
C1_Witness ==
    \E w, u \in Threads :
        /\ w # u
        /\ wpc[w] = "done" /\ wpc[u] = "done"
        /\ Len(repositories[w]) = PHASE1_MAX_REPOS
        /\ Len(repositories[u]) > 0

\* ======================================================================
\*  Claims about the repositories table
\* ======================================================================

\* The basic attributes of stored row r are those of the API item.
ReflectsSnapshot(r, item) ==
    /\ r.stargazers_count = item.stargazers_count
    /\ r.description = item.description
    /\ r.fork = item.fork
    /\ r.created_at = item.created_at

\* C14: bulk-upserting a github id that is already stored, with whatever
\* snapshot the API gives for it, leaves exactly one row for that id (the
\* set of stored ids is unchanged) and every basic attribute of that row
\* equals the value in the latest snapshot.
C14_SecondUpsertReflectsLatest ==
    \A g \in DOMAIN rows : \A item \in ApiItems(g) :
        LET table == Upsert(rows, ExtractAllBasicFields(item)) IN
        /\ DOMAIN table = DOMAIN rows
        /\ ReflectsSnapshot(table[g], item)

\* C15: in every reachable state of the table, under any interleaving of
\* Phase-1 bulk upserts and Phase-2 updates, a row with phase2_completed
\* has phase1_completed, and no step takes a row's phase1_completed from
\* true to false.
C15_Phase2ImpliesPhase1 ==
    /\ [](\A g \in DOMAIN rows : rows[g].phase2_completed => rows[g].phase1_completed)
    /\ [][\A g \in DOMAIN rows :
            rows[g].phase1_completed => (g \in DOMAIN rows' /\ rows'[g].phase1_completed)]_vars

\* C15 witness: a row that Phase 2 completed and that a later Phase-1 upsert
\* rewrote (its star count is now below the threshold of the selection that
\* picked it), next to a second row Phase 2 has not completed.
C15_Witness ==
    \E g, h \in DOMAIN rows :
        /\ rows[g].phase2_completed /\ rows[g].phase1_completed
        /\ rows[g].stargazers_count < PHASE2_MIN_STARS
        /\ ~rows[h].phase2_completed

\* C16: no step removes a stored row, and no step replaces a stored
\* non-null attribute (the description) by null.
C16_NeverNarrowed ==
    [][\A g \in DOMAIN rows :
          /\ g \in DOMAIN rows'
          /\ rows[g].description # NoDescription => rows'[g].description # NoDescription]_vars

\* The step in which get_repositories_for_enrichment answers with the
\* result of its query.
SelectionStep == p2pc = "idle" /\ p2pc' = "running"

\* C18: no step unsets a row's phase2_completed marker, and the candidate
\* list of every selection holds no id whose stored row has the marker set
\* at the time of the selection, whatever the earlier runs selected.
C18_CompletedIsExcluded ==
    [][/\ \A g \in DOMAIN rows :
            rows[g].phase2_completed => (g \in DOMAIN rows' /\ rows'[g].phase2_completed)
       /\ SelectionStep =>
            \A i \in 1..Len(candidates') : ~rows[candidates'[i]].phase2_completed]_vars

\* C18 witness: a selection has just answered with row h alone, while row g,
\* completed by an earlier run, passes every other condition of the query
\* and would have been placed before h.
C18_Witness ==
    \E g, h \in DOMAIN rows :
        /\ p2pc = "running"
        /\ candidates = <<h>> /\ pending = {h}
        /\ rows[g].phase2_completed /\ ~rows[h].phase2_completed
        /\ BasicDone(rows[g]) /\ EnoughStars(rows[g])
        /\ RecentEnough(rows[g], cutoff_date) /\ ForkAllowed(rows[g], skip_forks)
        /\ SortsBefore(rows[g], rows[h])

\* The stored row passes the conditions the selection is described by, for
\* an age threshold that falls on day cutoff.
Eligible(row, cutoff) ==
    /\ row.phase1_completed
    /\ ~row.phase2_completed
    /\ row.stargazers_count >= PHASE2_MIN_STARS
    /\ row.created_at >= cutoff
    /\ skip_forks => ~row.fork

\* Row a has more stars than row b or, with as many, is the younger one.
RanksAbove(a, b) ==
    \/ a.stargazers_count > b.stargazers_count
    \/ a.stargazers_count = b.stargazers_count /\ a.created_at > b.created_at

\* C19: the candidate list of every selection holds eligible rows only,
\* each once, as many as there are eligible rows up to PHASE2_MAX_REPOS, in
\* the order of stars descending then creation date descending, and no
\* eligible row left out ranks above a row in the list.
C19_CandidatesAreTheQuery ==
    [][SelectionStep =>
         LET c == candidates'
             E == {g \in DOMAIN rows : Eligible(rows[g], cutoff_date')}
         IN  /\ NoRepeat(c)
             /\ SeqRange(c) \subseteq E
             /\ Len(c) = Min({PHASE2_MAX_REPOS, Cardinality(E)})
             /\ \A i, j \in 1..Len(c) : i < j => ~RanksAbove(rows[c[j]], rows[c[i]])
             /\ \A g \in E \ SeqRange(c) : \A i \in 1..Len(c) :
                    ~RanksAbove(rows[g], rows[c[i]])]_vars

\* C19 witness: a selection has just answered with row g, which has exactly
\* PHASE2_MIN_STARS stars; row h is eligible too, has as many stars and is
\* older, and the LIMIT left it out.
C19_Witness ==
    \E g, h \in DOMAIN rows :
        /\ p2pc = "running"
        /\ candidates = <<g>> /\ pending = {g}
        /\ Eligible(rows[g], cutoff_date) /\ Eligible(rows[h], cutoff_date)
        /\ rows[g].stargazers_count = PHASE2_MIN_STARS
        /\ rows[h].stargazers_count = PHASE2_MIN_STARS
        /\ rows[h].created_at < rows[g].created_at

\* ======================================================================
\*  Claims about the Phase-1 scheduler
\* ======================================================================

\* C20: every iteration of the as_completed loop counts its task, whether
\* the future holds a list or an exception; the list of a task that
\* returned is appended to all_repositories, which is kept or, at the
\* threshold, handed whole to the save; and collect_all_basic_repos returns
\* only when every submitted task has returned or raised and has been
\* processed, with completed_tasks equal to the number of submitted tasks.
C20_FailedTaskDoesNotAbort ==
    /\ [][\A w \in handled' \ handled :
            /\ completed_tasks' = completed_tasks + 1
            /\ wpc[w] = "done" =>
                 LET acc == all_repositories \o repositories[w] IN
                 \/ all_repositories' = acc
                 \/ /\ Len(acc) >= FlushThreshold
                    /\ all_repositories' = <<>>
                    /\ rows' \in {rows, UpsertAll(rows, acc)}]_vars
    /\ [](cpc = "returned" =>
            /\ \A w \in SearchTasksSubmitted : wpc[w] \in {"done", "raised"}
            /\ handled = SearchTasksSubmitted
            /\ completed_tasks = Cardinality(SearchTasksSubmitted))

\* C20 witness: collect_all_basic_repos has returned after one task raised
\* and the other returned a list that is now stored.
C20_Witness ==
    \E w, u \in Threads :
        /\ cpc = "returned"
        /\ wpc[w] = "raised" /\ wpc[u] = "done"
        /\ repositories[u] # <<>>
        /\ SeqRange(repositories[u]) \subseteq DOMAIN rows
        /\ completed_tasks = Cardinality(Threads)

\* Every save of the run stored its records: the counts the database
\* reported add up to the length of the list the task returned.
SavesSucceeded == total_collected = Len(repositories[TheTask])

\* C17: when a run with one discovery task on an empty table has returned
\* and its saves succeeded, the table holds min(PHASE1_MAX_REPOS, number of
\* new ids on the pages the task received) rows, so exactly PHASE1_MAX_REPOS
\* when the pages held more, and every row has phase1_completed true and
\* phase2_completed false.
C17_StoredIsMinOfCeilingAndOffered ==
    (cpc = "returned" /\ SavesSucceeded) =>
        /\ Cardinality(DOMAIN rows) =
             Min({PHASE1_MAX_REPOS, Cardinality(offered[TheTask])})
        /\ \A g \in DOMAIN rows :
             rows[g].phase1_completed /\ ~rows[g].phase2_completed

\* C17 witness: the task received two pages of one facet that held one new
\* id more than the ceiling, and the run has returned with exactly
\* PHASE1_MAX_REPOS rows stored.
C17_Witness ==
    /\ cpc = "returned" /\ SavesSucceeded
    /\ task[TheTask].nfacets = 1
    /\ page[TheTask] = 3
    /\ Cardinality(offered[TheTask]) = PHASE1_MAX_REPOS + 1
    /\ Cardinality(DOMAIN rows) = PHASE1_MAX_REPOS

C23_InterruptFlushesBatch ==
    cpc = "exited" => SeqRange(all_repositories) \subseteq DOMAIN upserted

\* C30: when collect_all_basic_repos has returned, every github id that was
\* put into collected_repos during the run has been passed to a bulk upsert
\* call, whether the task that claimed it returned or raised.
C30_NoClaimedIdLost ==
    cpc = "returned" => collected_repos \subseteq DOMAIN upserted

\* The tasks whose list holds github id g, and how often a list holds it.
Holders(g) == {w \in Threads : g \in SeqRange(repositories[w])}

Occurrences(seq, g) == Cardinality({i \in 1..Len(seq) : seq[i] = g})

\* C29: however the discovery workers interleave, no github id is in the
\* lists of two tasks or twice in one list, so it counts toward one
\* ceiling at most; and an id that add_repository_safe refused to a worker
\* that did not hold it is in the list of exactly one other task: of the
\* workers offered the id, exactly one was answered True.
C29_EachIdToOneTask ==
    /\ \A g \in 1..MaxId :
         /\ Cardinality(Holders(g)) <= 1
         /\ \A w \in Threads : Occurrences(repositories[w], g) <= 1
    /\ \A g \in refused : Cardinality(Holders(g)) = 1

\* C29 witness: both tasks have returned non-empty lists, and an id in the
\* list of one of them was offered to the other, which was refused it.
C29_Witness ==
    \E w, u \in Threads : \E g \in refused :
        /\ w # u
        /\ wpc[w] = "done" /\ wpc[u] = "done"
        /\ g \in SeqRange(repositories[w])
        /\ repositories[u] # <<>>

\* ---------------------------------------------- claims about a Phase-2 run
\* The candidates of the current run whose worker has finished.
Finished == {i \in 1..Len(candidates) : candidates[i] \notin pending}

BytesOf(body, lang) ==
    LET i == CHOOSE i \in 1..Len(body) : body[i][1] = lang IN body[i][2]

\* The sum of the percentages of a result, in hundredths of a percent.
RECURSIVE SumPercentages(_, _)
SumPercentages(stats, langs) ==
    IF langs = {} THEN 0
    ELSE LET l == CHOOSE l \in langs : TRUE
         IN stats[l].percentage + SumPercentages(stats, langs \ {l})

\* |a - b|
Distance(a, b) == IF a >= b THEN a - b ELSE b - a

\* C28: given language byte counts, get_repository_languages returns as main
\* language one with the most bytes, and for each language the percentage
\* bytes / total * 100 rounded to two decimals (the hundredth nearest to the
\* exact quotient); the percentages add up to 100 within half a hundredth
\* per language; for {A: 300, B: 100} the result is A with 75.0 and 25.0.
C28_LanguageStatistics ==
    (lpc = "returned" /\ language_data # Nothing) =>
        LET res == language_data[1]
            total == SumBytes(languages)
            names == {languages[i][1] : i \in 1..Len(languages)}
        IN /\ res.main_language \in names
           /\ \A l \in names : BytesOf(languages, l) <= BytesOf(languages, res.main_language)
           /\ DOMAIN res.language_stats = names
           /\ \A l \in names :
                /\ res.language_stats[l].bytes = BytesOf(languages, l)
                /\ 2 * Distance(res.language_stats[l].percentage * total,
                                BytesOf(languages, l) * 10000) <= total
           /\ 2 * Distance(SumPercentages(res.language_stats, names), 10000)
                <= Cardinality(names)
           /\ languages = <<<<"A", 300>>, <<"B", 100>>>> =>
                /\ res.main_language = "A"
                /\ res.language_stats["A"].percentage = 7500
                /\ res.language_stats["B"].percentage = 2500

\* get_repository_languages has returned the statistics of {A: 300, B: 100}.
C28_Witness ==
    /\ lpc = "returned"
    /\ languages = <<<<"A", 300>>, <<"B", 100>>>>
    /\ language_data # Nothing


\* ------------------------------------- claims about enrich_repository_worker
\* The worker has not yet reached its UPDATE.
Fetching ==
    epc \in {"languages", "contributors", "commits", "branches", "releases", "readme", "update"}

\* C24: one run of the worker on one repository issues exactly one UPDATE;
\* its SET list holds only enrichment columns and the two Phase-2 markers,
\* and the step that executes it leaves every basic column of the row as it
\* was.
C24_OneUpdateOfEnrichmentColumns ==
    /\ [](Fetching => updates_issued = 0)
    /\ [](epc = "returned" =>
            /\ updates_issued = 1
            /\ MarkerColumns \subseteq DOMAIN update_fields
            /\ DOMAIN update_fields \subseteq EnrichmentColumns \cup MarkerColumns)
    /\ [][(epc = "update" /\ epc' = "returned") =>
            \A c \in BasicColumns : rows'[target][c] = rows[target][c]]_vars

\* The worker has returned after an UPDATE that stored language statistics.
C24_Witness ==
    /\ epc = "returned"
    /\ worker_result = Some(TRUE)
    /\ "main_language" \in DOMAIN update_fields
    /\ "main_language" \in DOMAIN rows[target]

\* What get_repository_activity returned, from the three responses.
ActivityReturned ==
    ActivityResult(ReleasesCount(BranchesCount(CommitsCount(EmptyDict, fetched.commits),
                                               fetched.branches), fetched.releases))

\* None of the four fetches returned anything.
NothingCameBack ==
    /\ LanguagesFetch(fetched.languages) = Nothing
    /\ GetRepositoryContributors(fetched.contributors) = Nothing
    /\ ActivityReturned = Nothing
    /\ GetRepositoryReadme(fetched.readme) = Nothing

\* C26: when none of the four fetches returned anything the worker still
\* issues its UPDATE, with the Phase-2 marker and timestamp as the only
\* columns, and once the statement has been executed the row is marked
\* phase2_completed.
C26_EmptyEnrichmentStillMarks ==
    (epc = "returned" /\ NothingCameBack) =>
        /\ updates_issued = 1
        /\ DOMAIN update_fields = MarkerColumns
        /\ update_fields.phase2_completed = TRUE
        /\ worker_result = Some(TRUE) => rows[target].phase2_completed = TRUE

\* The worker has returned success after four fetches that returned nothing.
C26_Witness ==
    /\ epc = "returned"
    /\ NothingCameBack
    /\ worker_result = Some(TRUE)
    /\ rows[target].phase2_completed = TRUE

\* The six requests of one run, the kinds of response each can use, and the
\* columns each fills.
Requests == {"languages", "contributors", "commits", "branches", "releases", "readme"}
UsableKinds ==
    [languages |-> {"object"}, contributors |-> {"list"}, commits |-> {"linked", "list"},
     branches |-> {"list"}, releases |-> {"list"}, readme |-> {"object"}]
ColumnsOf ==
    [languages |-> {"main_language", "language_stats", "total_code_bytes"},
     contributors |-> {"contributors_count", "top_contributor"},
     commits |-> {"commits_count"},
     branches |-> {"branches_count"},
     releases |-> {"releases_count", "latest_release_tag"},
     readme |-> {"readme_content"}]

\* The request failed (no response, or one that cannot be used) or its
\* answer is empty.
FailedOrEmpty(f) ==
    \/ fetched[f].kind \notin UsableKinds[f]
    \/ fetched[f].kind # "linked" /\ fetched[f].items = <<>>

\* C25: a fetch (or sub-fetch of the activity fetch) that fails or returns
\* empty adds none of its columns to the SET list of the UPDATE, and the
\* remaining fetches are still made.
C25_FailedFetchOmitsItsColumns ==
    epc = "returned" =>
        /\ DOMAIN fetched = Requests
        /\ \A f \in Requests :
             FailedOrEmpty(f) => ColumnsOf[f] \cap DOMAIN update_fields = {}

\* The part of C25 the code keeps: the six requests are all made whatever
\* the earlier ones returned, and the languages, contributors and README
\* fetches add nothing when they fail or return empty.
C25_TopLevelFetchesOmit ==
    epc = "returned" =>
        /\ DOMAIN fetched = Requests
        /\ \A f \in {"languages", "contributors", "readme"} :
             FailedOrEmpty(f) => ColumnsOf[f] \cap DOMAIN update_fields = {}
        /\ \A f \in {"commits", "branches", "releases"} :
             fetched[f].kind = "none" => ColumnsOf[f] \cap DOMAIN update_fields = {}

\* Every request of the worker that ran last ended without a response.
Exhausted == DOMAIN fetched = Requests /\ \A f \in Requests : fetched[f].kind = "none"

\* C27: a repository whose enrichment requests all ran out of retries in one
\* run is selected again by the next run, provided it still passes the
\* other tests of the selection.
C27_SkippedIsSelectedAgain ==
    [][(/\ p2pc = "idle" /\ p2pc' = "running"
        /\ epc = "returned" /\ Exhausted
        /\ BasicDone(rows[target])
        /\ EnoughStars(rows[target])
        /\ RecentEnough(rows[target], cutoff_date')
        /\ ForkAllowed(rows[target], skip_forks))
       => target \in SeqRange(candidates')]_vars


\* What the code does keep: a repository whose worker returned failure,
\* because its UPDATE raised, is selected again by the next run under the
\* same proviso.
C27_FailedWorkerIsSelectedAgain ==
    [][(/\ p2pc = "idle" /\ p2pc' = "running"
        /\ epc = "returned" /\ worker_result = Some(FALSE)
        /\ BasicDone(rows[target])
        /\ EnoughStars(rows[target])
        /\ RecentEnough(rows[target], cutoff_date')
        /\ ForkAllowed(rows[target], skip_forks))
       => target \in SeqRange(candidates')]_vars


\* --------------------------------------------- claims about the worker pools
\* C31: at every moment the number of tasks being executed is at most the
\* max_workers of the pool (PHASE1_MAX_WORKERS for discovery tasks,
\* PHASE2_MAX_WORKERS for enrichment workers), however many were submitted.
C31_AtMostMaxWorkersExecute ==
    /\ Cardinality(executing) <= max_workers
    /\ pool_threads <= max_workers

\* More tasks than the pool has workers were submitted, the pool is full
\* and a task waits in the queue.
C31_Witness ==
    /\ nsubmitted > max_workers
    /\ Cardinality(executing) = max_workers
    /\ work_queue # <<>>

\* C32: every task the scheduler created is executed by exactly one worker
\* exactly once (no task is started twice, and all have been run once when
\* the scheduler leaves the pool), and its description stays as created.
C32_EachTaskRunsOnceUnchanged ==
    /\ [](\A i \in DOMAIN runs : runs[i] <= 1)
    /\ [](ppc = "done" => \A i \in DOMAIN runs : runs[i] = 1)
    /\ [][ppc # "off" => search_tasks' = search_tasks]_vars

\* The scheduler has left the pool after three tasks were run.
C32_Witness ==
    /\ ppc = "done"
    /\ Len(search_tasks) >= 3
    /\ \A i \in DOMAIN runs : runs[i] = 1


\* ------------------------------------------- claims about a worker's paging
\* The step in which worker w requests a page of its facet.
RequestsPage(w) == Len(requested'[w]) = Len(requested[w]) + 1

\* C33: within one worker and one facet the pages requested are 1, 2, 3, ...
\* in order, none twice and none skipped, at most MaxPages of them (10 in
\* the code); a page is requested only below the result ceiling, and after a
\* request the worker either reads the items of the page or, when there was
\* no response or no item, is done with the facet.
C33_PagesInOrder ==
    /\ [](\A w \in Threads :
            /\ Len(requested[w]) <= MaxPages
            /\ \A i \in 1..Len(requested[w]) : requested[w][i] = i)
    /\ [][\A w \in Threads : RequestsPage(w) =>
            /\ UnderCeiling(repositories[w])
            /\ \/ wpc'[w] = "for_item" /\ left'[w] > 0
               \/ wpc'[w] = "for_facet" /\ fi'[w] = fi[w] + 1]_vars

\* A worker has requested the first two pages of a facet.
C33_Witness ==
    \E w \in Threads : Len(requested[w]) >= 2 /\ requested[w][2] = 2


\* -------------------------------------- claims about the pool's mutual exclusion
\* Thread t is inside the with block of get_best_token: in its body, in
\* _wait_for_reset, or in the nested call of line 59.
InCriticalSection(t) ==
    \/ tpc[t] \in {"locked", "wait_for_reset", "sleep"}
    \/ tpc[t] = "enter" /\ depth[t] > 0

\* C34: token_stats is written only by the thread that holds
\* TokenManager.lock, in a step of its own during which it keeps the lock,
\* and at most one thread at a time is inside the critical section of
\* get_best_token.
C34_StatsWrittenUnderLock ==
    /\ [](\A t \in Threads : InCriticalSection(t) => lock = t)
    /\ [](Cardinality({t \in Threads : InCriticalSection(t)}) <= 1)
    /\ [][token_stats' # token_stats =>
            /\ lock \in Threads
            /\ lock' = lock
            /\ InCriticalSection(lock)
            /\ <<tpc[lock], idx[lock]>> # <<tpc'[lock], idx'[lock]>>
            /\ \A u \in Threads \ {lock} : tpc'[u] = tpc[u] /\ idx'[u] = idx[u]]_vars

\* A thread is updating token_stats while the other waits for the lock.
C34_Witness ==
    \E t, u \in Threads :
        /\ t # u
        /\ tpc[t] = "locked" /\ idx[t] > 0
        /\ tpc[u] = "enter" /\ depth[u] = 0

\* ------------------------------- claims about the standalone collector's client

C39_ProcessedIdsAreStored ==
    gpc # "save" => processed_repos \subseteq stored_ids

\* What C40 says of one id: it is processed at most once and saved at most
\* once in this process, and not processed at all if it was stored at startup.
ProcessedAtMostOnce(r) ==
    /\ times_processed[r] <= 1
    /\ times_saved[r] <= 1
    /\ r \in at_startup => times_processed[r] = 0

\* C40: within one process lifetime each repository id is fully processed
\* and saved at most once, across all files and cycles, and an id already
\* stored at startup is never processed again.
C40_EachIdProcessedOnce ==
    \A r \in DOMAIN times_processed : ProcessedAtMostOnce(r)

\* The same when _load_processed_repos has read the table.
C40_OnceWhenLoaded ==
    loaded => \A r \in DOMAIN times_processed : ProcessedAtMostOnce(r)

\* The last part of C40: a call of process_repository that fails leaves
\* processed_repos as it was.
C40_FailureDoesNotMark ==
    [][failures' # failures => processed_repos' = processed_repos]_vars

\* An id whose processing failed earlier has been processed.
C40_ProcessedAfterFailure ==
    \E r \in failures : times_processed[r] = 1

\* ------------------------------------------ claims about the Phase-1 batches

\* The list save_repositories_batch would get if the future of task w were
\* the next one the scheduler handles.
BatchWith(w) == all_repositories \o repositories[w]

\* C36: the records the scheduler has accumulated, and the list it has
\* after taking in any finished task, hold pairwise distinct github ids, so
\* no bulk upsert call gets the same id twice; and no id passed to an
\* upsert is accumulated or passed again in the run.
C36_BatchIdsDistinct ==
    /\ NoRepeat(all_repositories)
    /\ \A w \in SearchTasksSubmitted \ handled :
         wpc[w] = "done" => NoRepeat(BatchWith(w))
    /\ \A g \in DOMAIN upserted :
         /\ upserted[g] <= 1
         /\ cpc = "collecting" => g \notin SeqRange(all_repositories)

\* A bulk upsert has been called with records of both tasks.
C36_Witness ==
    /\ handled = Threads
    /\ \E g, h \in DOMAIN upserted :
         /\ g \in SeqRange(repositories["w1"])
         /\ h \in SeqRange(repositories["w2"])

\* ------------------------------------------------- claims about rediscovery

\* The columns Phase 2 writes.
Phase2Columns == MarkerColumns \cup EnrichmentColumns

\* The step is a Phase-1 upsert: the table changes while no enrichment run
\* is under way.
IsUpsertStep == p2pc = "idle" /\ p2pc' = "idle" /\ rows' # rows

\* C37: a Phase-1 bulk upsert of a stored repository leaves its
\* phase2_completed marker, its phase2_completed_at and every enrichment
\* column as they were, and a repository that is being enriched as a
\* candidate is never one whose marker is set: an enriched repository that
\* is discovered again is not selected again.
C37_UpsertKeepsPhase2Columns ==
    /\ [][IsUpsertStep =>
            \A g \in DOMAIN rows :
               /\ g \in DOMAIN rows'
               /\ DOMAIN rows'[g] = DOMAIN rows[g]
               /\ \A c \in DOMAIN rows[g] \cap Phase2Columns :
                    rows'[g][c] = rows[g][c]]_vars
    /\ [](\A g \in pending : rows[g].phase2_completed = FALSE)

\* The dict of the one-step worker is the dict the worker builds fetch by
\* fetch (checked under SpecEnrich).
C37_WorkerDictAgrees ==
    epc = "update" =>
        enrichment_data =
            EnrichmentData(fetched.languages, fetched.contributors, fetched.commits,
                           fetched.branches, fetched.releases, fetched.readme)

\* An enriched repository, with columns Phase 2 fetched, has been upserted
\* again with another star count, and a selection has been made since.
C37_Witness ==
    \E g \in DOMAIN rows :
       /\ rows[g].phase2_completed = TRUE
       /\ "main_language" \in DOMAIN rows[g]
       /\ rows[g].stargazers_count # PHASE2_MIN_STARS
       /\ p2pc = "running"

\* ------------------------------------------- claims about a failing upsert

\* The step is a call of save_repositories_batch whose bulk upsert raised:
\* records were passed to the database and the table is as it was.
IsFailedSaveStep == upserted' # upserted /\ rows' = rows

\* C38: when a Phase-1 bulk upsert raises, nothing is added to
\* total_collected; if it was the flush of the as_completed loop the
\* in-memory batch is empty afterwards and the run is still collecting, so
\* the remaining tasks are handled; and no record is passed to a second
\* bulk upsert, so the records of the failed batch are not retried.
C38_FailedUpsertIsDropped ==
    /\ [][IsFailedSaveStep =>
            /\ total_collected' = total_collected
            /\ handled' # handled => all_repositories' = <<>> /\ cpc' = "collecting"
            /\ handled' = handled => cpc' = "returned"]_vars
    /\ [](\A g \in DOMAIN upserted : upserted[g] <= 1)
    /\ [](cpc = "returned" =>
            total_collected <= Cardinality({g \in DOMAIN upserted : g \in DOMAIN rows}))

\* A flush failed, the run went on to handle the other task, saved its
\* records and returned.
C38_Witness ==
    /\ cpc = "returned"
    /\ handled = Threads
    /\ total_collected > 0
    /\ all_repositories # <<>>
    /\ SeqRange(all_repositories) \subseteq DOMAIN rows
    /\ \E g \in DOMAIN upserted :
         g \notin DOMAIN rows /\ g \notin SeqRange(all_repositories)

====
